---- MODULE Spec2Model ----
(***************************************************************************)
(* A model of api-mapper: the spec locator (fetchOpenApiSpec and its       *)
(* helpers), the normalizer (parseOpenApiSpec) and the generate command.   *)
(*                                                                         *)
(* Strings the code inspects character by character (paths, operation      *)
(* ids, version markers) are sequences of one-character strings.  URLs     *)
(* are sequences of tokens, and string concatenation is \o.                *)
(***************************************************************************)
EXTENDS Integers, Sequences, FiniteSets, TLC

VARIABLES
    \* ---- spec locator (fetchOpenApiSpec) ----
    url,        \* the argument of fetchOpenApiSpec
    pc,         \* position of the async function
    idx,        \* position of discoverSpec's for-loop in SPEC_DISCOVERY_PATHS
    data,       \* the value fetchAndParse returned for the current candidate
    inflight,   \* the awaited promises that have not settled yet
    fetchLog,   \* every URL handed to fetch(), in order
    failedAt,   \* the attempts (0 = direct, k = k-th probe) evaluated as failed
    caught,     \* the error a catch block swallowed last, and at which attempt
    result,     \* the FetchResult the function resolved with
    error,      \* the Error the function rejected with
    \* ---- generate command (cli) ----
    gpc,        \* position of the command's action
    run,        \* the number of the current invocation of the command
    options,    \* its --docs-only / --no-docs options
    disk,       \* the files of the output directory
    generatedFiles, \* generateApiFiles' list of the files it has written
    \* ---- normalizer and renderers ----
    npc,        \* "input", "parsed" (parseOpenApiSpec returned), "typed", "generated"
    doc,        \* the validated document handed to parseOpenApiSpec
    api,        \* the ParsedApi it returned
    client,     \* what generateClient emitted for it
    types,      \* what generateTypes emitted for it
    docs,       \* what generateDocs emitted for it
    rendered,   \* the renderers a caller of the library ran on the IR, in order
    \* ---- dev server ----
    envPort,    \* process.env.PORT
    starting,   \* the startServer calls that found a port and have not bound it yet
    servers,    \* the servers of this process that are listening, in order of start
    served      \* the response to the last request, and the server it came from

locVars == <<url, pc, idx, data, inflight, fetchLog, failedAt, caught, result, error>>

genVars == <<gpc, run, options, disk, generatedFiles>>

normVars == <<npc, doc, api, client, types, docs, rendered>>

srvVars == <<envPort, starting, servers, served>>

vars == <<locVars, genVars, normVars, srvVars>>

None == [none |-> TRUE]

(***************************************************************************)
(* JavaScript values of the fields isOpenApiSpec looks at.                 *)
(***************************************************************************)
JsUndefined == [t |-> "undefined", v |-> <<>>]
JsString(s) == [t |-> "string", v |-> s]
JsNumber(s) == [t |-> "number", v |-> s]
JsArray(s) == [t |-> "array", v |-> s]

\* String.prototype.startsWith
StartsWith(s, p) == Len(s) >= Len(p) /\ SubSeq(s, 1, Len(p)) = p

VersionValues ==
    { JsUndefined,
      JsString(<<"3", ".", "0", ".", "3">>),
      JsString(<<"3", "0">>),
      JsString(<<"2", ".", "0">>),
      JsString(<<"1", ".", "2">>),
      JsNumber(<<"3", ".", "1">>) }

\* What a body can parse to: a non-object (a YAML scalar, null), or an object
\* with some openapi and swagger fields.  src is the URL that served it.
ParsedBodies(u) ==
    { [obj |-> FALSE, openapi |-> JsUndefined, swagger |-> JsUndefined, src |-> u] }
    \cup { [obj |-> TRUE, openapi |-> o, swagger |-> s, src |-> u] :
             o \in VersionValues, s \in VersionValues }

\* An isOpenApiSpec that compares the major version digit only.
isOpenApiSpecMajorOnly(d) ==
    /\ d.obj
    /\ \/ (d.openapi.t = "string" /\ StartsWith(d.openapi.v, <<"3">>))
       \/ (d.swagger.t = "string" /\ StartsWith(d.swagger.v, <<"2">>))

isOpenApiSpec(d) ==
    IF ~d.obj THEN FALSE
    ELSE IF d.openapi.t = "string" /\ StartsWith(d.openapi.v, <<"3", ".">>) THEN TRUE
    ELSE IF d.swagger.t = "string" /\ StartsWith(d.swagger.v, <<"2", ".">>) THEN TRUE
    ELSE FALSE

SPEC_DISCOVERY_PATHS ==
    << "/openapi.json",
       "/openapi.yaml",
       "/swagger.json",
       "/swagger.yaml",
       "/api-docs",
       "/v3/api-docs",
       "/v2/api-docs",
       "/api/v3/openapi.json",
       "/api/v3/openapi.yaml",
       "/api/v2/swagger.json",
       "/docs/openapi.json",
       "/docs/swagger.json",
       "/api/openapi.json",
       "/api/swagger.json",
       "/.well-known/openapi.json" >>

NumPaths == Len(SPEC_DISCOVERY_PATHS)

(***************************************************************************)
(* URLs.  A string that new URL() accepts is <<protocol, "//", host,       *)
(* path>>; anything else makes new URL() (and fetch) throw.                *)
(***************************************************************************)
Protocols == {"https:", "http:"}

UrlParses(u) == Len(u) >= 3 /\ u[1] \in Protocols /\ u[2] = "//"

StartUrls ==
    { <<"https:", "//", "api.example.com", "/v1/docs/index.html">>,
      <<"http:", "//", "localhost:8080", "/openapi.json">>,
      <<"https:", "//", "petstore3.swagger.io">>,
      <<"petstore3.swagger.io/api/v3">> }

getBaseUrl(u) ==
    IF UrlParses(u) THEN <<u[1], "//", u[3]>> ELSE u

\* `${baseUrl}${path}` in discoverSpec
fullUrl(baseUrl, k) == baseUrl \o <<SPEC_DISCOVERY_PATHS[k]>>

(***************************************************************************)
(* fetchAndParse(url): what the awaited promise can settle with.           *)
(***************************************************************************)
FetchErrors(u) ==
    IF UrlParses(u)
    THEN { [thrown |-> TRUE, kind |-> "network"],        \* fetch() rejects
           [thrown |-> TRUE, kind |-> "http"],           \* !response.ok
           [thrown |-> TRUE, kind |-> "unparseable"] }   \* neither JSON nor YAML
    ELSE { [thrown |-> TRUE, kind |-> "network"] }       \* fetch() rejects the URL

FetchOutcomes(u) ==
    FetchErrors(u)
    \cup (IF UrlParses(u)
          THEN { [thrown |-> FALSE, value |-> d] : d \in ParsedBodies(u) }
          ELSE {})

Fetch(u) == [op |-> "fetch", target |-> u]
Validate(u) == [op |-> "validate", target |-> u]

(***************************************************************************)
(* The state each part of the program is in before it has run.             *)
(***************************************************************************)
MaxRuns == 2

FileNames == {"types.ts", "client.ts", "API.md", "manifest.json"}

FileOf(r, listed) == [run |-> r, partial |-> FALSE, files |-> listed]

Truncated(r) == [run |-> r, partial |-> TRUE, files |-> <<>>]

GenIdle ==
    /\ gpc = "idle"
    /\ run = 0
    /\ options = [docsOnly |-> FALSE, docs |-> TRUE]
    /\ disk = [f \in FileNames |-> None]
    /\ generatedFiles = <<>>

SrvIdle ==
    /\ envPort = JsUndefined
    /\ starting = {}
    /\ servers = <<>>
    /\ served = None

NormIdle ==
    /\ npc = "idle"
    /\ doc = None
    /\ api = None
    /\ client = None
    /\ types = None
    /\ docs = None
    /\ rendered = <<>>

LocIdle ==
    /\ url = <<>>
    /\ pc = "idle"
    /\ idx = 0
    /\ data = None
    /\ inflight = {}
    /\ fetchLog = <<>>
    /\ failedAt = {}
    /\ caught = None
    /\ result = None
    /\ error = None

Init ==
    /\ GenIdle
    /\ SrvIdle
    /\ NormIdle
    /\ url \in StartUrls
    /\ pc = "start"
    /\ idx = 0
    /\ data = None
    /\ inflight = {}
    /\ fetchLog = <<>>
    /\ failedAt = {}
    /\ caught = None
    /\ result = None
    /\ error = None

(***************************************************************************)
(* fetchOpenApiSpec(url): the direct attempt.  Every await is a point      *)
(* where the function is suspended with exactly the awaited promise        *)
(* outstanding.                                                            *)
(***************************************************************************)
\* const data = await fetchAndParse(url)   -- the call
DirectFetch ==
    /\ pc = "start"
    /\ pc' = "direct_fetch"
    /\ inflight' = inflight \cup {Fetch(url)}
    /\ fetchLog' = Append(fetchLog, url)
    /\ UNCHANGED <<url, idx, data, failedAt, caught, result, error>>
    /\ UNCHANGED <<genVars, normVars, srvVars>>

\* ... the await settles; isOpenApiSpec(data); SwaggerParser.validate(data) is called
DirectFetched ==
    /\ pc = "direct_fetch"
    /\ \E o \in FetchOutcomes(url) :
         /\ inflight' = (inflight \ {Fetch(url)})
                          \cup (IF ~o.thrown /\ isOpenApiSpec(o.value)
                                THEN {Validate(url)} ELSE {})
         /\ IF o.thrown
            THEN \* catch (error): logged, fall through to discovery
                 /\ caught' = [at |-> 0, kind |-> o.kind]
                 /\ failedAt' = failedAt \cup {0}
                 /\ data' = None
                 /\ pc' = "discover"
                 /\ idx' = 1
            ELSE IF isOpenApiSpec(o.value)
            THEN /\ data' = o.value
                 /\ pc' = "direct_validate"
                 /\ UNCHANGED <<caught, failedAt, idx>>
            ELSE \* "URL does not contain a valid OpenAPI/Swagger spec"
                 /\ failedAt' = failedAt \cup {0}
                 /\ data' = None
                 /\ pc' = "discover"
                 /\ idx' = 1
                 /\ UNCHANGED caught
    /\ UNCHANGED <<url, fetchLog, result, error>>
    /\ UNCHANGED <<genVars, normVars, srvVars>>

\* const validated = await SwaggerParser.validate(data); return {spec, sourceUrl: url}
DirectValidated ==
    /\ pc = "direct_validate"
    /\ inflight' = inflight \ {Validate(url)}
    /\ \E accepted \in BOOLEAN :
         IF accepted
         THEN /\ result' = [spec |-> data, sourceUrl |-> url]
              /\ pc' = "returned"
              /\ UNCHANGED <<caught, failedAt, idx>>
         ELSE /\ caught' = [at |-> 0, kind |-> "validation"]
              /\ failedAt' = failedAt \cup {0}
              /\ pc' = "discover"
              /\ idx' = 1
              /\ UNCHANGED result
    /\ data' = None
    /\ UNCHANGED <<url, fetchLog, error>>
    /\ UNCHANGED <<genVars, normVars, srvVars>>

(***************************************************************************)
(* discoverSpec(getBaseUrl(url)): for (const path of SPEC_DISCOVERY_PATHS) *)
(***************************************************************************)
\* A loop that steps over a path after a failure.
nextPathSkipsOne(k) == k + 2

\* A loop that tries the same path again after a failure.
nextPathRepeats(k) == k

\* The for-of loop's step: the path after the k-th.
nextPath(k) == k + 1

\* A discoverSpec that starts all the remaining probes at once.
ProbeFetchFanOut ==
    /\ pc = "discover"
    /\ idx <= NumPaths
    /\ pc' = "probe_fetch"
    /\ inflight' = inflight \cup {Fetch(fullUrl(getBaseUrl(url), k)) : k \in idx..NumPaths}
    /\ fetchLog' = fetchLog \o [j \in 1..(NumPaths - idx + 1) |->
                                 fullUrl(getBaseUrl(url), idx + j - 1)]
    /\ UNCHANGED <<url, idx, data, failedAt, caught, result, error>>
    /\ UNCHANGED <<genVars, normVars, srvVars>>

\* const data = await fetchAndParse(fullUrl)   -- the call
ProbeFetch ==
    /\ pc = "discover"
    /\ idx <= NumPaths
    /\ pc' = "probe_fetch"
    /\ inflight' = inflight \cup {Fetch(fullUrl(getBaseUrl(url), idx))}
    /\ fetchLog' = Append(fetchLog, fullUrl(getBaseUrl(url), idx))
    /\ UNCHANGED <<url, idx, data, failedAt, caught, result, error>>
    /\ UNCHANGED <<genVars, normVars, srvVars>>

\* ... the await settles; isOpenApiSpec(data); SwaggerParser.validate(data) is called
ProbeFetched ==
    /\ pc = "probe_fetch"
    /\ LET u == fullUrl(getBaseUrl(url), idx) IN
       \E o \in FetchOutcomes(u) :
         /\ inflight' = (inflight \ {Fetch(u)})
                          \cup (IF ~o.thrown /\ isOpenApiSpec(o.value)
                                THEN {Validate(u)} ELSE {})
         /\ IF o.thrown
            THEN \* catch { // Continue to next path }
                 /\ caught' = [at |-> idx, kind |-> o.kind]
                 /\ failedAt' = failedAt \cup {idx}
                 /\ data' = None
                 /\ pc' = "discover"
                 /\ idx' = nextPath(idx)
            ELSE IF isOpenApiSpec(o.value)
            THEN /\ data' = o.value
                 /\ pc' = "probe_validate"
                 /\ UNCHANGED <<caught, failedAt, idx>>
            ELSE /\ failedAt' = failedAt \cup {idx}
                 /\ data' = None
                 /\ pc' = "discover"
                 /\ idx' = nextPath(idx)
                 /\ UNCHANGED caught
    /\ UNCHANGED <<url, fetchLog, result, error>>
    /\ UNCHANGED <<genVars, normVars, srvVars>>

\* A discoverSpec that reports the start URL as the source.
discoveredWithStartUrl(u, k, d) == [spec |-> d, sourceUrl |-> u]

\* The FetchResult discoverSpec returns, which fetchOpenApiSpec returns as it is.
discovered(u, k, d) == [spec |-> d, sourceUrl |-> fullUrl(getBaseUrl(u), k)]

\* const validated = await SwaggerParser.validate(data); return {spec, sourceUrl: fullUrl}
ProbeValidated ==
    /\ pc = "probe_validate"
    /\ inflight' = inflight \ {Validate(fullUrl(getBaseUrl(url), idx))}
    /\ \E accepted \in BOOLEAN :
         IF accepted
         THEN /\ result' = discovered(url, idx, data)
              /\ pc' = "returned"
              /\ UNCHANGED <<caught, failedAt, idx>>
         ELSE \* catch { // Continue to next path }
              /\ caught' = [at |-> idx, kind |-> "validation"]
              /\ failedAt' = failedAt \cup {idx}
              /\ pc' = "discover"
              /\ idx' = nextPath(idx)
              /\ UNCHANGED result
    /\ data' = None
    /\ UNCHANGED <<url, fetchLog, error>>
    /\ UNCHANGED <<genVars, normVars, srvVars>>

\* What the Error thrown after a fruitless discovery carries: its message
\* names the direct URL and the base URL.
notFoundError(u) ==
    [name |-> "Error", directUrl |-> u, baseUrl |-> getBaseUrl(u)]

\* discoverSpec returned null: throw new Error("Could not find an OpenAPI specification...")
NotFound ==
    /\ pc = "discover"
    /\ idx > NumPaths
    /\ error' = notFoundError(url)
    /\ pc' = "thrown"
    /\ UNCHANGED <<url, idx, data, inflight, fetchLog, failedAt, caught, result>>
    /\ UNCHANGED <<genVars, normVars, srvVars>>

Next ==
    \/ DirectFetch
    \/ DirectFetched
    \/ DirectValidated
    \/ ProbeFetch
    \/ ProbeFetched
    \/ ProbeValidated
    \/ NotFound

Spec == Init /\ [][Next]_vars

\* The locator when every fetch and every validation it awaits settles: the
\* runtime resumes the function after each await, and between two awaits the
\* function runs on by itself.
SpecLive == Init /\ [][Next]_vars /\ WF_vars(Next)

(***************************************************************************)
(* Properties of the spec locator.                                         *)
(***************************************************************************)
\* scheme://host[:port] of a URL, and the candidates in the order of the
\* claims: candidate 0 is the start URL, candidate k the k-th probe path
\* under the origin.
OriginOf(u) == IF UrlParses(u) THEN SubSeq(u, 1, 3) ELSE u

Candidate(k) == IF k = 0 THEN url ELSE OriginOf(url) \o <<SPEC_DISCOVERY_PATHS[k]>>

\* A top-level openapi string starting with "3." or swagger string starting with "2."
Recognised(d) ==
    /\ d.obj
    /\ \/ (d.openapi.t = "string" /\ Len(d.openapi.v) >= 2
             /\ d.openapi.v[1] = "3" /\ d.openapi.v[2] = ".")
       \/ (d.swagger.t = "string" /\ Len(d.swagger.v) >= 2
             /\ d.swagger.v[1] = "2" /\ d.swagger.v[2] = ".")

DirectFailed == 0 \in failedAt

\* C1: after a failed direct attempt the probe paths are fetched strictly in
\* list order, a path only once every earlier candidate has failed, and the
\* first path that yields a validated document ends the run: nothing is
\* fetched after it and sourceUrl is origin + that path.
C1_ProbesInOrderStopAtFirst ==
    /\ \A j \in 1..Len(fetchLog) :
         /\ fetchLog[j] = Candidate(j - 1)
         /\ \A m \in 0..(j - 2) : m \in failedAt
    /\ (pc = "returned" /\ DirectFailed) =>
         /\ idx \in 1..NumPaths
         /\ idx \notin failedAt
         /\ Len(fetchLog) = idx + 1
         /\ result.sourceUrl = Candidate(idx)
         /\ result.spec.src = Candidate(idx)
         /\ inflight = {}
         /\ ~ENABLED Next

C1_Witness ==
    /\ pc = "returned"
    /\ DirectFailed
    /\ idx = 3
    /\ caught # None /\ caught.kind = "validation"

\* C2 (as claimed): when the k-th probe path is the one that yields the valid
\* document, exactly k fetch attempts have been made in total.
C2_Original ==
    (pc = "returned" /\ DirectFailed) => Len(fetchLog) = idx

\* C2 (amended): when the k-th probe path is the one that yields the valid
\* document, exactly k probe fetches have been made after the one direct
\* fetch of the start URL (k + 1 fetch attempts in total, not 1 and not
\* all), and the result names that path.
C2_ProbeCount ==
    (pc = "returned" /\ DirectFailed) =>
        /\ fetchLog[1] = url
        /\ Len(fetchLog) - 1 = idx
        /\ \A k \in 1..(idx - 1) : k \in failedAt
        /\ fetchLog[Len(fetchLog)] = OriginOf(url) \o <<SPEC_DISCOVERY_PATHS[idx]>>
        /\ result.sourceUrl = fetchLog[Len(fetchLog)]

C2_Witness ==
    /\ pc = "returned"
    /\ DirectFailed
    /\ idx = 5
    /\ Len(fetchLog) = 6
    /\ result.sourceUrl = OriginOf(url) \o <<"/api-docs">>

\* C3: a document fetched from the start URL that is recognised as a spec and
\* accepted by the validator is returned with sourceUrl = startUrl, and no
\* probe is fetched.
C3_DirectHit ==
    (pc \notin {"start", "direct_fetch", "direct_validate"} /\ ~DirectFailed) =>
        /\ pc = "returned"
        /\ result.sourceUrl = url
        /\ result.spec.src = url
        /\ Recognised(result.spec)
        /\ fetchLog = <<url>>
        /\ inflight = {}
        /\ ~ENABLED Next

C3_Witness ==
    /\ pc = "returned"
    /\ ~DirectFailed
    /\ result.sourceUrl = url
    /\ result.spec.swagger = JsString(<<"2", ".", "0">>)

\* C4 (as claimed): when the direct attempt and every probe fail, the error
\* thrown carries the original URL, the computed origin and the full ordered
\* list of attempted paths.
C4_Original ==
    pc = "thrown" =>
        /\ result = None
        /\ error.directUrl = url
        /\ error.baseUrl = OriginOf(url)
        /\ "paths" \in DOMAIN error
        /\ error.paths = SPEC_DISCOVERY_PATHS

\* C5 (as claimed): a ValidationFailure raised while a probe candidate is
\* handled is never swallowed by discovery.
C5_Original ==
    (caught # None /\ caught.at >= 1) => caught.kind # "validation"

\* C6: at most one fetch or validation is outstanding at any time, it is the
\* one of the current candidate, and a probe is outstanding only when every
\* earlier candidate has been evaluated as failed.
C6_OneRoundTripInFlight ==
    /\ Cardinality(inflight) <= 1
    /\ \A r \in inflight :
         /\ r.target = Candidate(idx)
         /\ r.op = "fetch" <=> pc \in {"direct_fetch", "probe_fetch"}
         /\ r.op = "validate" <=> pc \in {"direct_validate", "probe_validate"}
         /\ \A m \in 0..(idx - 1) : m \in failedAt
    /\ pc \in {"direct_fetch", "probe_fetch", "direct_validate", "probe_validate"}
         => inflight # {}

C6_Witness ==
    /\ pc = "probe_fetch"
    /\ idx = 2
    /\ inflight = {Fetch(Candidate(2))}
    /\ failedAt = {0, 1}

(***************************************************************************)
(* The generate command.  A file of the output directory is absent (None)  *)
(* or holds what some run wrote to it; a writeFile that fails leaves the   *)
(* file as it was or leaves a truncated file behind.                       *)
(***************************************************************************)
\* await writeFile(path, content, "utf-8"), then the step after it
WriteFile(name, content, then) ==
    \/ /\ disk' = [disk EXCEPT ![name] = content]
       /\ gpc' = then
    \/ /\ disk' \in {disk, [disk EXCEPT ![name] = Truncated(run)]}
       /\ gpc' = "failed"           \* catch: console.error, process.exit(1)

\* api-mapper generate <url> [--docs-only] [--no-docs]
GenStart ==
    /\ gpc \in {"idle", "done", "failed"}
    /\ run < MaxRuns
    /\ run' = run + 1
    /\ options' \in [docsOnly : BOOLEAN, docs : BOOLEAN]
    /\ generatedFiles' = <<>>
    /\ gpc' = "fetch"
    /\ UNCHANGED disk
    /\ UNCHANGED <<locVars, normVars, srvVars>>

\* const { spec, sourceUrl } = await fetchOpenApiSpec(url)
GenFetch ==
    /\ gpc = "fetch"
    /\ gpc' \in {"parse", "failed"}
    /\ UNCHANGED <<run, options, disk, generatedFiles>>
    /\ UNCHANGED <<locVars, normVars, srvVars>>

\* const parsedApi = parseOpenApiSpec(spec), and the console output
GenParse ==
    /\ gpc = "parse"
    /\ gpc' \in {"mkdir", "failed"}
    /\ UNCHANGED <<run, options, disk, generatedFiles>>
    /\ UNCHANGED <<locVars, normVars, srvVars>>

\* await mkdir(outputDir, { recursive: true })
GenMkdir ==
    /\ gpc = "mkdir"
    /\ gpc' \in {"types", "failed"}
    /\ UNCHANGED <<run, options, disk, generatedFiles>>
    /\ UNCHANGED <<locVars, normVars, srvVars>>

\* generateApiFiles: types.ts
GenTypes ==
    /\ gpc = "types"
    /\ IF options.docsOnly
       THEN /\ gpc' = "docs"
            /\ UNCHANGED <<disk, generatedFiles>>
       ELSE /\ WriteFile("types.ts", FileOf(run, <<>>), "client")
            /\ generatedFiles' = IF gpc' = "client"
                                 THEN Append(generatedFiles, "types.ts")
                                 ELSE generatedFiles
    /\ UNCHANGED <<run, options>>
    /\ UNCHANGED <<locVars, normVars, srvVars>>

\* generateApiFiles: client.ts
GenClient ==
    /\ gpc = "client"
    /\ WriteFile("client.ts", FileOf(run, <<>>), "docs")
    /\ generatedFiles' = IF gpc' = "docs"
                         THEN Append(generatedFiles, "client.ts")
                         ELSE generatedFiles
    /\ UNCHANGED <<run, options>>
    /\ UNCHANGED <<locVars, normVars, srvVars>>

\* generateApiFiles: API.md
GenDocs ==
    /\ gpc = "docs"
    /\ IF options.docs = FALSE
       THEN /\ gpc' = "manifest"
            /\ UNCHANGED <<disk, generatedFiles>>
       ELSE /\ WriteFile("API.md", FileOf(run, <<>>), "manifest")
            /\ generatedFiles' = IF gpc' = "manifest"
                                 THEN Append(generatedFiles, "API.md")
                                 ELSE generatedFiles
    /\ UNCHANGED <<run, options>>
    /\ UNCHANGED <<locVars, normVars, srvVars>>

\* createManifest(..., generatedFiles) and writeFile(manifestPath, ...)
GenManifest ==
    /\ gpc = "manifest"
    /\ WriteFile("manifest.json", FileOf(run, generatedFiles), "done")
    /\ UNCHANGED <<run, options, generatedFiles>>
    /\ UNCHANGED <<locVars, normVars, srvVars>>

GenInit ==
    /\ GenIdle
    /\ SrvIdle
    /\ NormIdle
    /\ LocIdle

GenNext ==
    \/ GenStart
    \/ GenFetch
    \/ GenParse
    \/ GenMkdir
    \/ GenTypes
    \/ GenClient
    \/ GenDocs
    \/ GenManifest

SpecGen == GenInit /\ [][GenNext]_vars

\* The files a readable manifest lists all hold the complete output of the
\* run that wrote the manifest.
ListedFilesFromOneRun ==
    LET m == disk["manifest.json"] IN
    (m # None /\ ~m.partial) =>
        /\ \A j \in 1..Len(m.files) :
               /\ disk[m.files[j]] # None
               /\ disk[m.files[j]].run = m.run
               /\ ~disk[m.files[j]].partial

\* C7 (as claimed): a failed run never leaves a manifest.json next to artifact
\* files that do not all come from the one completed run the manifest records.
C7_Original ==
    gpc = "failed" => ListedFilesFromOneRun

(***************************************************************************)
(* Strings as sequences of characters, and the String methods the          *)
(* normalizer and the renderers use.                                       *)
(***************************************************************************)
LowerCaseLetters == <<"a", "b", "c", "d", "e", "f", "g", "h", "i", "j", "k", "l", "m", "n", "o", "p", "q", "r", "s", "t", "u", "v", "w", "x", "y", "z">>

UpperCaseLetters == <<"A", "B", "C", "D", "E", "F", "G", "H", "I", "J", "K", "L", "M", "N", "O", "P", "Q", "R", "S", "T", "U", "V", "W", "X", "Y", "Z">>

Digits == {"0", "1", "2", "3", "4", "5", "6", "7", "8", "9"}

Range(f) == {f[x] : x \in DOMAIN f}

\* the regular expression class \w
IsWordChar(c) ==
    c \in Range(LowerCaseLetters) \cup Range(UpperCaseLetters) \cup Digits \cup {"_"}

\* a letter outside the class \w that has an upper and a lower case
EAcute == [upper |-> "É", lower |-> "é"]

toUpperCaseChar(c) ==
    IF \E n \in 1..26 : LowerCaseLetters[n] = c
    THEN UpperCaseLetters[CHOOSE n \in 1..26 : LowerCaseLetters[n] = c]
    ELSE IF c = EAcute.lower THEN EAcute.upper
    ELSE c

toLowerCaseChar(c) ==
    IF \E n \in 1..26 : UpperCaseLetters[n] = c
    THEN LowerCaseLetters[CHOOSE n \in 1..26 : UpperCaseLetters[n] = c]
    ELSE IF c = EAcute.upper THEN EAcute.lower
    ELSE c

toUpperCase(s) == [n \in 1..Len(s) |-> toUpperCaseChar(s[n])]

toLowerCase(s) == [n \in 1..Len(s) |-> toLowerCaseChar(s[n])]

\* p.charAt(0).toUpperCase() + p.slice(1)
upperFirst(p) == IF p = <<>> THEN <<>> ELSE <<toUpperCaseChar(p[1])>> \o Tail(p)

RECURSIVE splitFrom(_, _, _)
splitFrom(s, sep, cur) ==
    IF s = <<>> THEN <<cur>>
    ELSE IF Head(s) = sep THEN <<cur>> \o splitFrom(Tail(s), sep, <<>>)
    ELSE splitFrom(Tail(s), sep, Append(cur, Head(s)))

\* String.prototype.split
split(s, sep) == splitFrom(s, sep, <<>>)

\* Array.prototype.join(""), and the concatenation of a list of lists
RECURSIVE join(_)
join(parts) == IF parts = <<>> THEN <<>> ELSE Head(parts) \o join(Tail(parts))

(***************************************************************************)
(* Identifier derivation of the client renderer.                           *)
(***************************************************************************)
\* str.replace(/[-_](\w)/g, (_, c) => c.toUpperCase())
RECURSIVE replaceSeparators(_)
replaceSeparators(s) ==
    IF s = <<>> THEN <<>>
    ELSE IF s[1] \in {"-", "_"} /\ Len(s) >= 2 /\ IsWordChar(s[2])
    THEN <<toUpperCaseChar(s[2])>> \o replaceSeparators(SubSeq(s, 3, Len(s)))
    ELSE <<s[1]>> \o replaceSeparators(Tail(s))

\* .replace(/^\w/, (c) => c.toUpperCase())
replaceFirstWordChar(s) ==
    IF s # <<>> /\ IsWordChar(s[1]) THEN <<toUpperCaseChar(s[1])>> \o Tail(s) ELSE s

pascalCase(str) == replaceFirstWordChar(replaceSeparators(str))

camelCase(str) ==
    LET pascal == pascalCase(str) IN
    IF pascal = <<>> THEN <<>> ELSE <<toLowerCaseChar(pascal[1])>> \o Tail(pascal)

(***************************************************************************)
(* The normalizer: parseOpenApiSpec.  A document's paths object is the     *)
(* sequence of its entries in insertion order (path keys begin with "/",   *)
(* so Object.entries keeps that order); a path item is a function from     *)
(* the keys it has to their values.                                        *)
(***************************************************************************)
\* The operation keys of an OpenAPI 3 path item.
HttpMethods == {"get", "put", "post", "delete", "options", "head", "patch", "trace"}

MethodName ==
    [get |-> <<"g", "e", "t">>, put |-> <<"p", "u", "t">>, post |-> <<"p", "o", "s", "t">>,
     delete |-> <<"d", "e", "l", "e", "t", "e">>,
     options |-> <<"o", "p", "t", "i", "o", "n", "s">>,
     head |-> <<"h", "e", "a", "d">>, patch |-> <<"p", "a", "t", "c", "h">>,
     trace |-> <<"t", "r", "a", "c", "e">>]

\* const methods = ["get", "post", "put", "patch", "delete", "head", "options"]
methods == <<"get", "post", "put", "patch", "delete", "head", "options">>

\* A generateOperationId that keeps the {parameter} segments.
generateOperationIdKeepsParameters(method, path) ==
    LET segs == SelectSeq(split(path, "/"), LAMBDA p : p # <<>>)
        parts == [n \in 1..Len(segs) |->
                    IF n = 1 THEN toLowerCase(segs[n]) ELSE upperFirst(segs[n])]
    IN toLowerCase(method) \o join([n \in 1..Len(parts) |-> upperFirst(parts[n])])

generateOperationId(method, path) ==
    LET segs == SelectSeq(split(path, "/"),
                          LAMBDA p : p # <<>> /\ ~StartsWith(p, <<"{">>))
        parts == [n \in 1..Len(segs) |->
                    IF n = 1 THEN toLowerCase(segs[n]) ELSE upperFirst(segs[n])]
    IN toLowerCase(method) \o join([n \in 1..Len(parts) |-> upperFirst(parts[n])])

(***************************************************************************)
(* Schemas of the normalizer.  A JavaScript object is a function from its  *)
(* own keys: a key the object does not have is outside its DOMAIN.         *)
(***************************************************************************)
Has(obj, key) == key \in DOMAIN obj

JsBoolean(b) == [t |-> "boolean", v |-> b]

\* obj.key of a string-valued (boolean-valued) key, undefined when absent
StringAt(obj, key) == IF Has(obj, key) THEN JsString(obj[key]) ELSE JsUndefined

BooleanAt(obj, key) == IF Has(obj, key) THEN JsBoolean(obj[key]) ELSE JsUndefined

\* the type names the code compares with and assigns
TString == <<"s", "t", "r", "i", "n", "g">>

TInteger == <<"i", "n", "t", "e", "g", "e", "r">>

TNumber == <<"n", "u", "m", "b", "e", "r">>

TBoolean == <<"b", "o", "o", "l", "e", "a", "n">>

TArray == <<"a", "r", "r", "a", "y">>

TObject == <<"o", "b", "j", "e", "c", "t">>

TEnum == <<"e", "n", "u", "m">>

TUnknown == <<"u", "n", "k", "n", "o", "w", "n">>

\* typeof obj === "object" && obj !== null && "$ref" in obj
isReference(obj) == obj # JsUndefined /\ Has(obj, "$ref")

\* const parts = ref.split("/"); return parts[parts.length - 1]
getRefName(ref) == LET parts == split(ref, "/") IN parts[Len(parts)]

\* schema.allOf[0] (oneOf, anyOf) when the key holds an array with a first item
hasFirstBranch(schema, key) == Has(schema, key) /\ schema[key] # <<>>

\* A composition keyword resolved to its last branch.
firstBranchIsLast(schema, key) == schema[key][Len(schema[key])]

\* schema.allOf[0]
firstBranch(schema, key) == schema[key][1]

RECURSIVE parseSchema(_)
parseSchema(schema) ==
    IF schema = JsUndefined THEN [type |-> TUnknown]
    ELSE IF isReference(schema)
    THEN [type |-> getRefName(schema["$ref"]), ref |-> schema["$ref"]]
    ELSE
      LET isArray == Has(schema, "type") /\ schema.type = TArray
          isObject == Has(schema, "type") /\ schema.type = TObject
          props == IF Has(schema, "properties") THEN schema.properties ELSE <<>>
          node ==
            [ type |-> IF Has(schema, "enum") THEN TEnum
                       ELSE IF Has(schema, "type") THEN schema.type ELSE TObject,
              description |-> StringAt(schema, "description"),
              nullable |-> BooleanAt(schema, "nullable") ]
            @@ (IF Has(schema, "format") THEN "format" :> schema.format ELSE <<>>)
            @@ (IF Has(schema, "enum") THEN "enum" :> schema.enum ELSE <<>>)
            @@ (IF isArray /\ Has(schema, "items")
                THEN "items" :> parseSchema(schema.items) ELSE <<>>)
            @@ (IF isObject \/ Has(schema, "properties")
                THEN "properties" :>
                       [n \in 1..Len(props) |->
                          [name |-> props[n].name, schema |-> parseSchema(props[n].schema)]]
                ELSE <<>>)
            @@ (IF (isObject \/ Has(schema, "properties")) /\ Has(schema, "required")
                THEN "required" :> schema.required ELSE <<>>)
      IN IF hasFirstBranch(schema, "allOf") THEN parseSchema(firstBranch(schema, "allOf"))
         ELSE IF hasFirstBranch(schema, "oneOf") THEN parseSchema(firstBranch(schema, "oneOf"))
         ELSE IF hasFirstBranch(schema, "anyOf") THEN parseSchema(firstBranch(schema, "anyOf"))
         ELSE node

(***************************************************************************)
(* Parameters, request bodies and responses of the normalizer.             *)
(***************************************************************************)
parseParameter(param) ==
    [ name |-> param.name,
      in |-> param.in,
      required |-> Has(param, "required") /\ param.required,
      description |-> StringAt(param, "description"),
      type |-> IF Has(param, "schema") /\ Has(param.schema, "type")
               THEN param.schema.type ELSE TString,
      format |-> IF Has(param, "schema") THEN StringAt(param.schema, "format")
                 ELSE JsUndefined ]

\* String.prototype.includes
includes(s, sub) ==
    \E n \in 1..(Len(s) - Len(sub) + 1) : SubSeq(s, n, n + Len(sub) - 1) = sub

Json == <<"j", "s", "o", "n">>

\* Object.keys(content).find((ct) => ct.includes("json")) || Object.keys(content)[0]
\* content is the list of the object's entries, in the order of its keys
pickContentType(content) ==
    LET json == {n \in 1..Len(content) : includes(content[n].contentType, Json)}
    IN IF json # {} THEN CHOOSE n \in json : \A k \in json : n <= k
       ELSE IF content # <<>> THEN 1 ELSE 0

parseRequestBody(requestBody) ==
    IF requestBody = JsUndefined \/ isReference(requestBody) THEN JsUndefined
    ELSE LET content == requestBody.content
             at == pickContentType(content)
         IN IF at = 0 THEN JsUndefined
            ELSE [ required |-> Has(requestBody, "required") /\ requestBody.required,
                   description |-> StringAt(requestBody, "description"),
                   contentType |-> content[at].contentType,
                   schema |-> parseSchema(content[at].mediaType.schema) ]

ReferencePrefix == <<"R", "e", "f", "e", "r", "e", "n", "c", "e", ":", " ">>

\* the body of parseResponses' loop for one entry of Object.entries(responses)
parseResponse(statusCode, response) ==
    IF isReference(response)
    THEN [statusCode |-> statusCode, description |-> ReferencePrefix \o response["$ref"]]
    ELSE LET parsed == [ statusCode |-> statusCode,
                         description |-> IF Has(response, "description")
                                         THEN response.description ELSE <<>> ]
             at == IF Has(response, "content") THEN pickContentType(response.content) ELSE 0
         IN IF at = 0 THEN parsed
            ELSE parsed @@ [ contentType |-> response.content[at].contentType,
                             schema |-> parseSchema(response.content[at].mediaType.schema) ]

\* responses is the list Object.entries(responses)
parseResponses(responses) ==
    [n \in 1..Len(responses) |->
        parseResponse(responses[n].statusCode, responses[n].response)]

\* the parameters of one level that are not references
ownParameters(obj) ==
    IF Has(obj, "parameters")
    THEN SelectSeq(obj.parameters, LAMBDA p : ~isReference(p))
    ELSE <<>>

\* const allParams: ParameterObject[] = []; ... allParams.push(p)
allParams(pathItem, operation) ==
    ownParameters(pathItem) \o ownParameters(operation)

\* a || b for a string, an array or undefined a (an empty array is truthy)
OrElse(a, b) == IF a.t = "undefined" \/ (a.t = "string" /\ a.v = <<>>) THEN b ELSE a.v

\* const parsedOp: ParsedOperation = { ... }
parsedOp(method, path, pathItem) ==
    LET operation == pathItem[method] IN
    [ operationId |-> OrElse(operation.operationId,
                             generateOperationId(MethodName[method], path)),
      method      |-> toUpperCase(MethodName[method]),
      path        |-> path,
      tags        |-> OrElse(operation.tags, <<>>),
      parameters  |-> LET all == allParams(pathItem, operation)
                      IN [n \in 1..Len(all) |-> parseParameter(all[n])],
      requestBody |-> parseRequestBody(IF Has(operation, "requestBody")
                                       THEN operation.requestBody ELSE JsUndefined),
      responses   |-> parseResponses(IF Has(operation, "responses")
                                     THEN operation.responses ELSE <<>>) ]

\* for (const method of methods) { ... operations.push(parsedOp) }
operationsOfPath(path, pathItem) ==
    IF pathItem = None THEN <<>>
    ELSE LET present == SelectSeq(methods, LAMBDA m : m \in DOMAIN pathItem)
         IN [n \in 1..Len(present) |-> parsedOp(present[n], path, pathItem)]

\* for (const [name, schema] of Object.entries(components.schemas))
parsedSchemas(spec) ==
    IF Has(spec, "components") /\ Has(spec.components, "schemas")
    THEN [n \in 1..Len(spec.components.schemas) |->
            [ name |-> spec.components.schemas[n].name,
              schema |-> parseSchema(spec.components.schemas[n].schema) ]]
    ELSE <<>>

\* for (const [path, pathItem] of Object.entries(paths)) { ... }
parseOpenApiSpec(spec) ==
    [ operations |->
        join([n \in 1..Len(spec.paths) |->
                operationsOfPath(spec.paths[n].path, spec.paths[n].item)]),
      schemas |-> parsedSchemas(spec) ]

(***************************************************************************)
(* The client renderer: the type imports of generateClient, and for each   *)
(* method what generateMethod emits: its signature, the expression of the  *)
(* request path, the lines that build the query string, the options of     *)
(* the fetch call and the return statement.                                *)
(***************************************************************************)
Response == <<"R", "e", "s", "p", "o", "n", "s", "e">>

Params == <<"P", "a", "r", "a", "m", "s">>

Request == <<"R", "e", "q", "u", "e", "s", "t">>

Void == <<"v", "o", "i", "d">>

Default == <<"d", "e", "f", "a", "u", "l", "t">>

ApplicationJson ==
    <<"a", "p", "p", "l", "i", "c", "a", "t", "i", "o", "n", "/", "j", "s", "o", "n">>

JsNull == [t |-> "null", v |-> <<>>]

\* Set.prototype.add, the set kept in insertion order
SetAdd(seq, x) == IF x \in Range(seq) THEN seq ELSE Append(seq, x)

\* String.prototype.endsWith
EndsWith(s, p) == Len(s) >= Len(p) /\ SubSeq(s, Len(s) - Len(p) + 1, Len(s)) = p

\* String.prototype.indexOf, counted from 1; 0 when pattern does not occur
indexOf(s, pattern) ==
    LET at == {n \in 1..(Len(s) - Len(pattern) + 1) :
                 SubSeq(s, n, n + Len(pattern) - 1) = pattern}
    IN IF at = {} THEN 0 ELSE CHOOSE n \in at : \A k \in at : n <= k

\* String.prototype.replace with a string pattern: the first occurrence only
replace(s, pattern, replacement) ==
    LET n == indexOf(s, pattern)
    IN IF n = 0 THEN s
       ELSE SubSeq(s, 1, n - 1) \o replacement \o SubSeq(s, n + Len(pattern), Len(s))

\* A group key taken from the last tag of the operation.
groupKeyLastTag(op) ==
    IF op.tags = <<>> THEN Default ELSE OrElse(JsString(op.tags[Len(op.tags)]), Default)

\* const tag = op.tags[0] || "default"
groupKey(op) ==
    IF op.tags = <<>> THEN Default ELSE OrElse(JsString(op.tags[1]), Default)

\* groupByTag: the Map of tag -> operations, in insertion order
RECURSIVE groupByTagFrom(_, _)
groupByTagFrom(ops, groups) ==
    IF ops = <<>> THEN groups
    ELSE LET op == Head(ops)
             tag == groupKey(op)
             at == {n \in 1..Len(groups) : groups[n].tag = tag}
         IN groupByTagFrom(Tail(ops),
              IF at = {}
              THEN Append(groups, [tag |-> tag, ops |-> <<op>>])
              ELSE LET n == CHOOSE n \in at : TRUE
                   IN [groups EXCEPT ![n].ops = Append(@, op)])

groupByTag(ops) == groupByTagFrom(ops, <<>>)

getMethodName(op) == camelCase(op.operationId)

getResponseType(op) == pascalCase(op.operationId) \o Response

\* A parameter filter that lets header and cookie parameters through.
queryOrPathOrAny(parameters) == parameters

\* the parameters with p.in === "query" || p.in === "path"
queryOrPath(parameters) == SelectSeq(parameters, LAMBDA p : p.in \in {"query", "path"})

getParamsType(op) ==
    IF queryOrPath(op.parameters) = <<>> THEN JsNull
    ELSE JsString(pascalCase(op.operationId) \o Params)

getRequestType(op) ==
    IF op.requestBody = JsUndefined THEN JsNull
    ELSE JsString(pascalCase(op.operationId) \o Request)

\* result = result.replace(`{${param.name}}`, `\${params.${param.name}}`)
RECURSIVE generatePathInterpolation(_, _)
generatePathInterpolation(path, pathParams) ==
    IF pathParams = <<>> THEN path
    ELSE generatePathInterpolation(
           replace(path, <<"{">> \o Head(pathParams).name \o <<"}">>,
                   <<"$", "{", "p", "a", "r", "a", "m", "s", ".">> \o Head(pathParams).name \o <<"}">>),
           Tail(pathParams))

\* A query builder that guards the required parameters and sets the optional
\* ones unconditionally.
generateQueryBuilderGuardsRequired(queryParams) ==
    [n \in 1..Len(queryParams) |->
        [ condition |-> queryParams[n].required,
          key |-> queryParams[n].name,
          access |-> ".",
          value |-> [coercion |-> "String", of |-> queryParams[n].name] ]]

\* the lines `${condition}queryParams.set("name", String(params.name));`
\* condition: the line is under `if (params.name !== undefined)`
\* access: the member of params is read as params.name, not as params?.name
generateQueryBuilder(queryParams) ==
    [n \in 1..Len(queryParams) |->
        [ condition |-> ~queryParams[n].required,
          key |-> queryParams[n].name,
          access |-> ".",
          value |-> [coercion |-> "String", of |-> queryParams[n].name] ]]

generateMethod(op) ==
    LET responseType == getResponseType(op)
        paramsType == getParamsType(op)
        requestType == getRequestType(op)
        pathParams == SelectSeq(op.parameters, LAMBDA p : p.in = "path")
        queryParams == SelectSeq(op.parameters, LAMBDA p : p.in = "query")
        allOptional == \A n \in 1..Len(op.parameters) : ~op.parameters[n].required
    IN [ methodName |-> getMethodName(op),
         params |->
            (IF paramsType # JsNull
             THEN <<[name |-> "params", optional |-> allOptional, type |-> paramsType.v]>>
             ELSE <<>>)
            \o (IF requestType # JsNull
                THEN <<[name |-> "body", optional |-> FALSE, type |-> requestType.v]>>
                ELSE <<>>),
         responseType |-> responseType,
         \* a template literal when there are path parameters, else a string
         pathExpr |-> IF pathParams # <<>>
                      THEN [template |-> TRUE,
                            text |-> generatePathInterpolation(op.path, pathParams)]
                      ELSE [template |-> FALSE, text |-> op.path],
         queryLines |-> generateQueryBuilder(queryParams),
         queryAppend |-> queryParams # <<>>,
         fetchOptions |->
            [method |-> op.method]
            @@ (IF requestType # JsNull
                THEN [headers |-> [ContentType |-> ApplicationJson],
                      body |-> [serialization |-> "JSON.stringify", of |-> "body"]]
                ELSE <<>>),
         return |-> IF EndsWith(responseType, Void) THEN "return" ELSE "return response.json()" ]

RECURSIVE typeImportsOf(_, _)
typeImportsOf(ops, acc) ==
    IF ops = <<>> THEN acc
    ELSE LET op == Head(ops)
             withResponse == SetAdd(acc, pascalCase(op.operationId) \o Response)
             withParams == IF getParamsType(op) # JsNull
                           THEN SetAdd(withResponse, getParamsType(op).v)
                           ELSE withResponse
             withRequest == IF getRequestType(op) # JsNull
                            THEN SetAdd(withParams, getRequestType(op).v)
                            ELSE withParams
         IN typeImportsOf(Tail(ops), withRequest)

generateClient(a) ==
    LET groupedOps == groupByTag(a.operations) IN
    [ typeImports |-> typeImportsOf(a.operations, <<>>),
      groups |-> [g \in 1..Len(groupedOps) |->
                    [ tagName |-> camelCase(groupedOps[g].tag),
                      methods |-> [n \in 1..Len(groupedOps[g].ops) |->
                                     generateMethod(groupedOps[g].ops[n])] ]] ]

(***************************************************************************)
(* The type renderer: the declarations generateTypes emits, in order.      *)
(***************************************************************************)
\* the type renderer's own pascalCase
typesPascalCase(str) == replaceFirstWordChar(replaceSeparators(str))

\* switch (param.type) { ... }
paramTsType(type) ==
    IF type \in {TInteger, TNumber} THEN "number"
    ELSE IF type = TBoolean THEN "boolean"
    ELSE IF type = TArray THEN "string[]"
    ELSE "string"

\* A field list that leaves out the optional parameters.
paramsFieldsRequiredOnly(params) ==
    LET kept == SelectSeq(params, LAMBDA p : p.required)
    IN [n \in 1..Len(kept) |->
          [name |-> kept[n].name, optional |-> FALSE, tsType |-> paramTsType(kept[n].type)]]

\* lines.push(`  ${param.name}${optional}: ${tsType};`)
paramsFields(params) ==
    [n \in 1..Len(params) |->
        [ name |-> params[n].name,
          optional |-> ~params[n].required,
          tsType |-> paramTsType(params[n].type) ]]

generateParamsInterface(operation) ==
    LET params == SelectSeq(operation.parameters, LAMBDA p : p.in \in {"query", "path"})
    IN IF params = <<>> THEN <<>>
       ELSE <<[ kind |-> "interface",
                name |-> typesPascalCase(operation.operationId) \o Params,
                fields |-> paramsFields(params) ]>>

generateRequestBodyInterface(operation) ==
    IF operation.requestBody = JsUndefined THEN <<>>
    ELSE <<[ kind |-> IF Has(operation.requestBody.schema, "ref") THEN "alias" ELSE "inline",
             name |-> typesPascalCase(operation.operationId) \o Request,
             schema |-> operation.requestBody.schema ]>>

\* operation.responses.find((r) => r.statusCode.startsWith("2") && r.schema)
successResponse(operation) ==
    LET ok == {n \in 1..Len(operation.responses) :
                 /\ StartsWith(operation.responses[n].statusCode, <<"2">>)
                 /\ Has(operation.responses[n], "schema")}
    IN IF ok = {} THEN JsUndefined
       ELSE operation.responses[CHOOSE n \in ok : \A k \in ok : n <= k]

generateResponseType(operation) ==
    LET found == successResponse(operation)
        typeName == typesPascalCase(operation.operationId) \o Response
    IN IF found = JsUndefined
       THEN [kind |-> "void", name |-> typeName]
       ELSE IF Has(found.schema, "ref")
       THEN [kind |-> "alias", name |-> typeName, schema |-> found.schema]
       ELSE IF found.schema.type = TArray /\ Has(found.schema, "items")
               /\ Has(found.schema.items, "ref")
       THEN [kind |-> "aliasArray", name |-> typeName, schema |-> found.schema]
       ELSE [kind |-> "inline", name |-> typeName, schema |-> found.schema]

\* the declarations of one operation: Params, Request, Response
operationTypes(operation) ==
    generateParamsInterface(operation)
    \o generateRequestBodyInterface(operation)
    \o <<generateResponseType(operation)>>

generateTypes(a) ==
    [n \in 1..Len(a.schemas) |->
        [kind |-> "schema", name |-> a.schemas[n].name, schema |-> a.schemas[n].schema]]
    \o join([n \in 1..Len(a.operations) |-> operationTypes(a.operations[n])])

(***************************************************************************)
(* The docs renderer: the quick-start call, the sections of the endpoints  *)
(* with the rows of their parameter tables, and the rows of the field      *)
(* tables of the models.  A row is the list of its cells.                  *)
(***************************************************************************)
\* the docs renderer's own pascalCase
docsPascalCase(str) == replaceFirstWordChar(replaceSeparators(str))

\* A pascalCase that leaves the separators in place.
docsPascalCaseKeepsSeparators(str) == replaceFirstWordChar(str)

\* .replace(/^\w/, (c) => c.toLowerCase())
lowerFirstWordChar(s) ==
    IF s # <<>> /\ IsWordChar(s[1]) THEN <<toLowerCaseChar(s[1])>> \o Tail(s) ELSE s

\* str.replace(/\|/g, "\\|").replace(/\n/g, " ")
escapeMarkdown(str) ==
    join([n \in 1..Len(str) |->
            IF str[n] = "|" THEN <<"\\", "|">>
            ELSE IF str[n] = "\n" THEN <<" ">>
            ELSE <<str[n]>>])

\* the backquote character, which a string of this notation cannot hold
Backtick == <<"(backquote)">>

Yes == <<"Y", "e", "s">>

No == <<"N", "o">>

Dash == <<"-">>

ObjectCell == Backtick \o TObject \o Backtick

LocationName ==
    [path |-> <<"p", "a", "t", "h">>, query |-> <<"q", "u", "e", "r", "y">>, header |-> <<"h", "e", "a", "d", "e", "r">>, cookie |-> <<"c", "o", "o", "k", "i", "e">>]

\* parts.join(separator)
RECURSIVE joinWith(_, _)
joinWith(parts, separator) ==
    IF parts = <<>> THEN <<>>
    ELSE IF Len(parts) = 1 THEN parts[1]
    ELSE parts[1] \o separator \o joinWith(Tail(parts), separator)

RECURSIVE schemaToTypeString(_)
schemaToTypeString(schema) ==
    IF Has(schema, "ref") THEN Backtick \o schema.type \o Backtick
    ELSE IF Has(schema, "enum")
    THEN joinWith([n \in 1..Len(schema.enum) |->
                     Backtick \o <<"\"">> \o schema.enum[n] \o <<"\"">> \o Backtick],
                  <<" ", "\\", "|", " ">>)
    ELSE IF schema.type = TArray /\ Has(schema, "items")
    THEN schemaToTypeString(schema.items) \o <<"[", "]">>
    ELSE IF Has(schema, "properties") THEN ObjectCell
    ELSE Backtick \o schema.type \o Backtick

\* the cells of `| \`${param.name}\` | \`${param.type}\` | ... |`
generateParamTable(params) ==
    [n \in 1..Len(params) |->
        << Backtick \o params[n].name \o Backtick,
           Backtick \o params[n].type \o Backtick,
           IF params[n].required THEN Yes ELSE No,
           LocationName[params[n].in],
           IF params[n].description.t = "string" /\ params[n].description.v # <<>>
           THEN escapeMarkdown(params[n].description.v) ELSE Dash >>]

\* the rows of the field table of a model; none for an enum
generateSchemaDocs(schema) ==
    IF Has(schema, "enum") \/ ~Has(schema, "properties") THEN <<>>
    ELSE [n \in 1..Len(schema.properties) |->
            LET fieldName == schema.properties[n].name
                fieldSchema == schema.properties[n].schema
            IN << Backtick \o fieldName \o Backtick,
                  schemaToTypeString(fieldSchema),
                  IF Has(schema, "required") /\ fieldName \in Range(schema.required)
                  THEN Yes ELSE No,
                  IF Has(fieldSchema, "description")
                     /\ fieldSchema.description.t = "string"
                     /\ fieldSchema.description.v # <<>>
                  THEN escapeMarkdown(fieldSchema.description.v) ELSE Dash >>]

Get == <<"G", "E", "T">>

\* api.operations.find((op) => op.method === "GET" && op.parameters.length === 0)
\* and the call `api.${tag.toLowerCase()}.${methodName}()` printed for it
generateQuickStart(a) ==
    LET simple == {k \in 1..Len(a.operations) :
                     a.operations[k].method = Get /\ a.operations[k].parameters = <<>>}
    IN IF simple = {} THEN <<>>
       ELSE LET getOp == a.operations[CHOOSE k \in simple : \A j \in simple : k <= j]
            IN <<[ group |-> toLowerCase(groupKey(getOp)),
                   method |-> lowerFirstWordChar(replaceSeparators(getOp.operationId)) ]>>

generateDocs(a) ==
    LET tagGroups == groupByTag(a.operations) IN
    [ quickStart |-> generateQuickStart(a),
      endpoints |->
        [g \in 1..Len(tagGroups) |->
           [ title |-> docsPascalCase(tagGroups[g].tag),
             operations |->
               [n \in 1..Len(tagGroups[g].ops) |->
                  [ operationId |-> tagGroups[g].ops[n].operationId,
                    paramTable |-> generateParamTable(tagGroups[g].ops[n].parameters) ]] ]],
      models |->
        [n \in 1..Len(a.schemas) |->
           [name |-> a.schemas[n].name, fieldTable |-> generateSchemaDocs(a.schemas[n].schema)]] ]

(***************************************************************************)
(* The documents the normalizer is run on.                                 *)
(***************************************************************************)
MaxPaths == 2

PathPool ==
    { <<"/", "p", "e", "t", "/", "{", "p", "e", "t", "I", "d", "}", "/", "u", "p", "l", "o", "a", "d", "I", "m", "a", "g", "e">>,
      <<"/", "u", "s", "e", "r", "/", "c", "r", "e", "a", "t", "e", "W", "i", "t", "h", "L", "i", "s", "t">>,
      <<"/", "s", "t", "o", "r", "e", "I", "n", "v", "e", "n", "t", "o", "r", "y", "/", "{", "o", "r", "d", "e", "r", "I", "d", "}">> }

OperationPool ==
    { [operationId |-> JsUndefined, tags |-> JsUndefined],
      [operationId |-> JsString(<<>>), tags |-> JsArray(<<>>)],
      [operationId |-> JsString(<<"a", "d", "d", "P", "e", "t">>), tags |-> JsArray(<<<<"p", "e", "t">>>>)],
      [operationId |-> JsString(<<"g", "e", "t", "P", "e", "t", "U", "p", "l", "o", "a", "d", "I", "m", "a", "g", "e">>),
        tags |-> JsArray(<<<<"p", "e", "t">>, <<"i", "m", "a", "g", "e">>>>)] }

\* The operations with a non-empty or an absent operationId.
NamedOrAbsent == {o \in OperationPool : o.operationId # JsString(<<>>)}

\* Path items with one operation, or with a get and a post, and the null item.
PathItemPool ==
    { [k \in {"get"} |-> o] : o \in OperationPool }
    \cup { [k \in {"post"} |-> o] : o \in NamedOrAbsent }
    \cup { [k \in {"trace"} |-> o] : o \in {o \in NamedOrAbsent : Len(o.tags.v) = 1} }
    \cup { [k \in {"get", "post"} |-> IF k = "get" THEN o1 ELSE o2] :
             o1 \in NamedOrAbsent, o2 \in {o \in NamedOrAbsent : Len(o.tags.v) <= 1} }
    \cup { None }

\* The sequences of at most MaxPaths entries with distinct path keys.
PathsObjects ==
    UNION { { ps \in [1..n -> [path : PathPool, item : PathItemPool]] :
                \A a, b \in 1..n : a # b => ps[a].path # ps[b].path } :
            n \in 0..MaxPaths }

Documents == { [paths |-> ps] : ps \in PathsObjects }

NormInit ==
    /\ GenIdle
    /\ SrvIdle
    /\ LocIdle
    /\ npc = "input"
    /\ doc \in Documents
    /\ api = None
    /\ client = None
    /\ types = None
    /\ docs = None
    /\ rendered = <<>>

\* const parsedApi = parseOpenApiSpec(spec)
Parse ==
    /\ npc = "input"
    /\ api' = parseOpenApiSpec(doc)
    /\ npc' = "parsed"
    /\ UNCHANGED <<doc, client, types, docs, rendered>>
    /\ UNCHANGED <<locVars, genVars, srvVars>>

\* const typesContent = generateTypes(parsedApi)
GenerateTypes ==
    /\ npc = "parsed"
    /\ types' = generateTypes(api)
    /\ npc' = "typed"
    /\ UNCHANGED <<doc, api, client, docs, rendered>>
    /\ UNCHANGED <<locVars, genVars, srvVars>>

\* const clientContent = generateClient(parsedApi, clientName)
GenerateClient ==
    /\ npc = "typed"
    /\ client' = generateClient(api)
    /\ npc' = "generated"
    /\ UNCHANGED <<doc, api, types, docs, rendered>>
    /\ UNCHANGED <<locVars, genVars, srvVars>>

NormNext ==
    \/ Parse
    \/ GenerateTypes
    \/ GenerateClient

SpecNorm == NormInit /\ [][NormNext]_vars

(***************************************************************************)
(* The documents of one operation: its path, the parameters of its path    *)
(* item and its own, its request body and its responses.                   *)
(***************************************************************************)
MaxParams == 2

PetPath == <<"/", "p", "e", "t", "/", "{", "p", "e", "t", "I", "d", "}">>

FindPath == <<"/", "p", "e", "t", "/", "f", "i", "n", "d", "B", "y", "S", "t", "a", "t", "u", "s">>

CopyPath == <<"/", "c", "o", "p", "y", "/", "{", "i", "d", "}", "/", "t", "o", "/", "{", "i", "d", "}">>

OperationPaths == {PetPath, FindPath, CopyPath}

PetId == <<"p", "e", "t", "I", "d">>

Status == <<"s", "t", "a", "t", "u", "s">>

Limit == <<"l", "i", "m", "i", "t">>

ApiKey == <<"a", "p", "i", "_", "k", "e", "y">>

Id == <<"i", "d">>

PetRef == <<"#", "/", "c", "o", "m", "p", "o", "n", "e", "n", "t", "s", "/", "s", "c", "h", "e", "m", "a", "s", "/", "P", "e", "t">>

ParameterRef == <<"#", "/", "c", "o", "m", "p", "o", "n", "e", "n", "t", "s", "/", "p", "a", "r", "a", "m", "e", "t", "e", "r", "s", "/", "p", "e", "t", "I", "d">>

OctetStream == <<"a", "p", "p", "l", "i", "c", "a", "t", "i", "o", "n", "/", "o", "c", "t", "e", "t", "-", "s", "t", "r", "e", "a", "m">>

\* parameter objects as a document declares them
PathLevelPetId ==
    [name |-> PetId, in |-> "path", required |-> FALSE, schema |-> [type |-> TString]]

ParameterPool ==
    { [name |-> PetId, in |-> "path", required |-> TRUE, schema |-> [type |-> TInteger]],
      [name |-> Id, in |-> "path", required |-> TRUE],
      [name |-> Status, in |-> "query", required |-> TRUE, schema |-> [type |-> TString]],
      [name |-> Limit, in |-> "query", schema |-> [type |-> TInteger]],
      [name |-> ApiKey, in |-> "header", schema |-> [type |-> TString]],
      "$ref" :> ParameterRef }

NameOf(p) == IF Has(p, "name") THEN p.name ELSE p["$ref"]

\* The lists of at most MaxParams parameters with distinct names.
ParameterLists ==
    UNION { { ps \in [1..n -> ParameterPool] :
                \A a, b \in 1..n : a # b => NameOf(ps[a]) # NameOf(ps[b]) } :
            n \in 0..MaxParams }

PetSchema == "$ref" :> PetRef

InlineSchema ==
    [ type |-> TObject,
      properties |-> <<[name |-> Id, schema |-> [type |-> TInteger]]>>,
      required |-> <<Id>> ]

\* request bodies: the lists of the entries of their content objects
RequestBodyPool ==
    { [content |-> <<[contentType |-> ApplicationJson, mediaType |-> [schema |-> PetSchema]]>>,
       required |-> TRUE],
      [content |-> <<[contentType |-> OctetStream, mediaType |-> [schema |-> JsUndefined]]>>],
      [content |-> <<[contentType |-> OctetStream, mediaType |-> [schema |-> JsUndefined]],
                     [contentType |-> ApplicationJson, mediaType |-> [schema |-> InlineSchema]]>>],
      [content |-> <<>>] }

Code200 == <<"2", "0", "0">>

Code201 == <<"2", "0", "1">>

Code400 == <<"4", "0", "0">>

JsonContent(schema) ==
    <<[contentType |-> ApplicationJson, mediaType |-> [schema |-> schema]]>>

\* responses objects: the lists of their entries
ResponsesPool ==
    { <<[statusCode |-> Code200, response |-> [description |-> <<"o", "k">>, content |-> JsonContent(PetSchema)]]>>,
      <<[statusCode |-> Code200, response |-> [description |-> <<"o", "k">>]],
        [statusCode |-> Code201, response |-> [content |-> JsonContent(InlineSchema)]]>>,
      <<[statusCode |-> Code200, response |-> [description |-> <<"o", "k">>]],
        [statusCode |-> Code400, response |-> [content |-> JsonContent(InlineSchema)]]>>,
      <<[statusCode |-> Code400, response |-> "$ref" :> PetRef]>> }

DeletePet == <<"d", "e", "l", "e", "t", "e", "_", "p", "e", "t">>

Absent == <<>>

\* obj with key set to value, or obj itself when value is Absent
With(obj, key, value) == IF value = Absent THEN obj ELSE obj @@ (key :> value)

OperationObjects ==
    { With(With(With([operationId |-> id, tags |-> JsUndefined],
                     "parameters", ps), "requestBody", body), "responses", rs) :
        id \in {JsString(DeletePet), JsUndefined},
        ps \in ParameterLists,
        body \in RequestBodyPool \cup {Absent},
        rs \in ResponsesPool \cup {Absent} }

OperationDocuments ==
    { [paths |-> <<[path |-> path,
                    item |-> With("post" :> operation, "parameters", pathLevel)]>>] :
        path \in OperationPaths,
        operation \in OperationObjects,
        pathLevel \in {Absent, <<PathLevelPetId>>} }

OperationInit ==
    /\ GenIdle
    /\ SrvIdle
    /\ LocIdle
    /\ npc = "input"
    /\ doc \in OperationDocuments
    /\ api = None
    /\ client = None
    /\ types = None
    /\ docs = None
    /\ rendered = <<>>

SpecOperation == OperationInit /\ [][NormNext]_vars

(***************************************************************************)
(* Properties of the normalizer.                                           *)
(***************************************************************************)
\* The operations a document declares: (entry, key) for every operation key
\* of every path item, in the order of the paths.
DeclaredAt(n) ==
    IF doc.paths[n].item = None THEN {}
    ELSE DOMAIN doc.paths[n].item \cap HttpMethods

Declared == {<<n, m>> : n \in 1..Len(doc.paths), m \in HttpMethods} \cap
            {e \in (1..Len(doc.paths)) \X HttpMethods : e[2] \in DeclaredAt(e[1])}

DeclaredOperation(e) == doc.paths[e[1]].item[e[2]]

HasExplicitId(e) ==
    /\ DeclaredOperation(e).operationId.t = "string"
    /\ DeclaredOperation(e).operationId.v # <<>>

\* The entries of the IR that stem from the declared operation e.
ParsedFrom(e) ==
    {k \in 1..Len(api.operations) :
        /\ api.operations[k].path = doc.paths[e[1]].path
        /\ api.operations[k].method = toUpperCase(MethodName[e[2]])}

Normalized == npc \in {"parsed", "typed", "generated"}

\* C8 (as claimed): a client is never generated from a document in which two
\* operations resolve to the same identifier: such a run fails instead.
C8_Original ==
    npc = "generated" =>
        \A a, b \in 1..Len(api.operations) :
            a # b => api.operations[a].operationId # api.operations[b].operationId

\* C9 (as claimed): when every declared operation has an explicit id of its
\* own, the IR holds exactly one operation per declared operation, with its
\* id, and in the order of the document's paths.
C9_Original ==
    ( /\ Normalized
      /\ \A e \in Declared : HasExplicitId(e)
      /\ \A e, f \in Declared :
           e # f => DeclaredOperation(e).operationId # DeclaredOperation(f).operationId )
    => /\ Len(api.operations) = Cardinality(Declared)
       /\ \A e \in Declared :
            \E k \in 1..Len(api.operations) :
                api.operations[k].operationId = DeclaredOperation(e).operationId.v
       /\ \A e, f \in Declared :
            e[1] < f[1] => \A k \in ParsedFrom(e), l \in ParsedFrom(f) : k < l

\* The segments of a path: the pieces between its slashes, in order.
Boundaries(path) == {0, Len(path) + 1} \cup {n \in 1..Len(path) : path[n] = "/"}

SegmentAfter(path, b) ==
    LET next == CHOOSE c \in Boundaries(path) :
                    c > b /\ \A d \in Boundaries(path) : d > b => c <= d
    IN SubSeq(path, b + 1, next - 1)

RECURSIVE NamedSegmentsFrom(_, _)
NamedSegmentsFrom(path, b) ==
    IF b > Len(path) THEN <<>>
    ELSE LET seg == SegmentAfter(path, b)
             rest == NamedSegmentsFrom(path, b + Len(seg) + 1)
         IN IF seg = <<>> \/ seg[1] = "{" THEN rest ELSE <<seg>> \o rest

\* The path segments that are not {parameter} placeholders.
NamedSegments(path) == NamedSegmentsFrom(path, 0)

Capitalized(seg) == <<toUpperCaseChar(seg[1])>> \o SubSeq(seg, 2, Len(seg))

RECURSIVE Concat(_)
Concat(ss) == IF Len(ss) = 0 THEN <<>> ELSE ss[1] \o Concat(SubSeq(ss, 2, Len(ss)))

\* lower(method) + PascalCase(each segment), PascalCase upper-casing the
\* first letter of the segment and keeping the rest.
ClaimedId(m, path) ==
    LET segs == NamedSegments(path) IN
    toLowerCase(MethodName[m]) \o Concat([n \in 1..Len(segs) |-> Capitalized(segs[n])])

\* The same with the first segment lower-cased as a whole before its first
\* letter is upper-cased.
SynthesizedId(m, path) ==
    LET segs == NamedSegments(path) IN
    toLowerCase(MethodName[m]) \o
    Concat([n \in 1..Len(segs) |->
              IF n = 1 THEN Capitalized(toLowerCase(segs[n])) ELSE Capitalized(segs[n])])

\* The operations the normalizer reads that declare no operationId.
Unnamed ==
    {e \in Declared : e[2] \in Range(methods)
                      /\ DeclaredOperation(e).operationId.t = "undefined"}

ParsedParameters ==
    UNION { Range(api.operations[k].parameters) : k \in 1..Len(api.operations) }

\* C11 (as claimed): every parameter of the IR with location path is
\* required, whatever the required flag of its declaration says.
C11_Original ==
    Normalized => \A p \in ParsedParameters : p.in = "path" => p.required

\* The parameters the path item (the operation) of the declared operation e
\* declares itself.
PathLevel(e) == ownParameters(doc.paths[e[1]].item)

OperationLevel(e) == ownParameters(DeclaredOperation(e))

\* the declarations of one level that carry the name
Named(level, name) == {n \in 1..Len(level) : level[n].name = name}

\* C12 (as claimed): the parameter list of an operation is the union by name
\* of the parameters of its path item and its own: no two entries share a
\* name, every operation-level parameter appears, and a path-level parameter
\* appears exactly when no operation-level parameter has its name.
C12_Original ==
    Normalized =>
    \A e \in Declared : \A k \in ParsedFrom(e) :
        LET ps == api.operations[k].parameters IN
        /\ \A a, b \in 1..Len(ps) : a # b => ps[a].name # ps[b].name
        /\ \A n \in 1..Len(OperationLevel(e)) :
              parseParameter(OperationLevel(e)[n]) \in Range(ps)
        /\ \A n \in 1..Len(PathLevel(e)) :
              (Named(OperationLevel(e), PathLevel(e)[n].name) = {})
              <=> (parseParameter(PathLevel(e)[n]) \in Range(ps))

(***************************************************************************)
(* The documents of one component schema.                                  *)
(***************************************************************************)
MaxBranches == 2

Pet == <<"P", "e", "t">>

Int64 == <<"i", "n", "t", "6", "4">>

Available == <<"a", "v", "a", "i", "l", "a", "b", "l", "e">>

Sold == <<"s", "o", "l", "d">>

Described == <<"a", " ", "p", "e", "t">>

EnumSchema == [type |-> TString, enum |-> <<Available, Sold>>]

\* the schemas a composition keyword lists
BranchPool ==
    { [type |-> TString],
      [type |-> TInteger, format |-> Int64],
      PetSchema,
      EnumSchema,
      InlineSchema,
      [type |-> TArray, items |-> PetSchema] }

\* the keywords a composed schema carries next to its composition keyword
OwnKeywords ==
    { <<>>,
      [description |-> Described],
      [type |-> TObject, properties |-> <<[name |-> Status, schema |-> EnumSchema]>>],
      [type |-> TString, enum |-> <<Sold>>, nullable |-> TRUE] }

CompositionKeywords == {"allOf", "oneOf", "anyOf"}

Branches == UNION { [1..n -> BranchPool] : n \in 1..MaxBranches }

ComposedSchemas ==
    { own @@ (key :> branches) :
        own \in OwnKeywords, key \in CompositionKeywords, branches \in Branches }

\* schemas with two composition keywords, or with an empty list of branches
TwiceComposedSchemas ==
    { (k1 :> <<a>>) @@ (k2 :> bs) :
        k1 \in CompositionKeywords, k2 \in CompositionKeywords,
        a \in {PetSchema}, bs \in {<<>>, <<EnumSchema>>} }

\* schemas without a composition keyword
PlainSchemas ==
    BranchPool
    \cup { own \in OwnKeywords : own # <<>> }
    \cup { [type |-> TObject, properties |-> <<[name |-> Id, schema |-> [type |-> TInteger]]>>,
            enum |-> <<Sold>>],
           [type |-> TArray, items |-> [type |-> TString], enum |-> <<Sold>>],
           [type |-> TObject,
            properties |-> <<[name |-> Status,
                              schema |-> [allOf |-> <<EnumSchema, PetSchema>>]]>>] }

SchemaPool == PlainSchemas \cup ComposedSchemas \cup TwiceComposedSchemas

SchemaDocuments ==
    { [paths |-> <<>>, components |-> [schemas |-> <<[name |-> Pet, schema |-> s]>>]] :
        s \in SchemaPool }
    \cup { [paths |-> <<>>], [paths |-> <<>>, components |-> [securitySchemes |-> <<>>]] }

SchemaInit ==
    /\ GenIdle
    /\ SrvIdle
    /\ LocIdle
    /\ npc = "input"
    /\ doc \in SchemaDocuments
    /\ api = None
    /\ client = None
    /\ types = None
    /\ docs = None
    /\ rendered = <<>>

SpecSchema == SchemaInit /\ [][NormNext]_vars

(***************************************************************************)
(* Properties of the schemas of the IR.                                    *)
(***************************************************************************)
\* the component schemas the document declares, in order
DeclaredSchemas ==
    IF Has(doc, "components") /\ Has(doc.components, "schemas")
    THEN doc.components.schemas ELSE <<>>

\* the composition keywords of a schema that list at least one branch
Composing(schema) == {key \in CompositionKeywords : hasFirstBranch(schema, key)}

\* C13: a schema with a composition keyword normalizes to what the first
\* branch listed under the keyword normalizes to, whatever the other branches
\* and the schema's own type, properties, enum, nullable or description are.
C13_FirstBranch ==
    Normalized =>
    \A n \in 1..Len(DeclaredSchemas) :
        LET schema == DeclaredSchemas[n].schema IN
        \A key \in CompositionKeywords :
            Composing(schema) = {key} =>
                api.schemas[n].schema = parseSchema(schema[key][1])

\* C13 is witnessed by an object schema with properties of its own whose
\* allOf lists two branches that normalize differently.
C13_Witness ==
    /\ Normalized
    /\ \E n \in 1..Len(DeclaredSchemas) :
          LET schema == DeclaredSchemas[n].schema IN
          /\ Composing(schema) = {"allOf"}
          /\ Has(schema, "properties")
          /\ Len(schema.allOf) = 2
          /\ parseSchema(schema.allOf[1]) # parseSchema(schema.allOf[2])
          /\ api.schemas[n].schema = parseSchema(schema.allOf[1])
          /\ ~Has(api.schemas[n].schema, "properties")

\* every node of a parsed schema, at any nesting depth
RECURSIVE Nodes(_)
Nodes(node) ==
    {node}
    \cup (IF Has(node, "items") THEN Nodes(node.items) ELSE {})
    \cup (IF Has(node, "properties")
          THEN UNION { Nodes(node.properties[n].schema) : n \in 1..Len(node.properties) }
          ELSE {})

ParsedSchemaNodes == UNION { Nodes(api.schemas[n].schema) : n \in 1..Len(api.schemas) }

\* the variants of a node that are populated
Populated(node) ==
    {key \in {"enum", "items", "properties", "ref"} : Has(node, key)}
    \cup (IF \A key \in {"enum", "items", "properties", "ref"} : ~Has(node, key)
          THEN {"primitive"} ELSE {})

\* C14 (as claimed): every node of a parsed schema has exactly one of
\* primitive leaf, enum, items, properties and reference populated; a
\* reference node has nothing but the reference, and its name is the last
\* segment of the pointer.
C14_Original ==
    Normalized =>
    \A node \in ParsedSchemaNodes :
        /\ Cardinality(Populated(node)) = 1
        /\ Has(node, "ref") =>
              /\ DOMAIN node = {"type", "ref"}
              /\ node.type = getRefName(node.ref)

(***************************************************************************)
(* Properties of the renderers.                                            *)
(***************************************************************************)
Typed == npc \in {"typed", "generated"}

Generated == npc = "generated"

\* every method generateClient emitted, and the methods emitted for op
AllMethods == UNION { Range(client.groups[g].methods) : g \in 1..Len(client.groups) }

MethodsOf(op) ==
    {m \in AllMethods : m.methodName = camelCase(op.operationId)
                        /\ m.fetchOptions.method = op.method}

\* the declarations generateTypes emitted under a name
Declarations(name) == {n \in 1..Len(types) : types[n].name = name}

\* the first response of op with a 2xx status code and a schema
HasSuccessSchema(op) ==
    \E n \in 1..Len(op.responses) :
        op.responses[n].statusCode[1] = "2" /\ Has(op.responses[n], "schema")

\* C15 (as claimed): the two renderers agree on the response of every
\* operation: without a 2xx response that has a schema the response type is
\* void and the client method returns nothing; otherwise the type is not void
\* and the method returns the deserialized body.
C15_Original ==
    Generated =>
    \A k \in 1..Len(api.operations) :
        LET op == api.operations[k] IN
        \A m \in MethodsOf(op) :
        \A n \in Declarations(pascalCase(op.operationId) \o Response) :
            /\ (types[n].kind = "void") <=> ~HasSuccessSchema(op)
            /\ (m.return = "return") <=> ~HasSuccessSchema(op)

\* the type names a method uses in its signature
UsedTypes(m) == {m.responseType} \cup {m.params[n].type : n \in 1..Len(m.params)}

\* C16: every type name the client imports from the types file or uses in a
\* method signature is declared by generateTypes for the same IR.
C16_ImportsDeclared ==
    Generated =>
    \A name \in Range(client.typeImports) \cup UNION { UsedTypes(m) : m \in AllMethods } :
        Declarations(name) # {}

\* C16 is witnessed by an operation with a query or path parameter and a
\* request body: its Response, Params and Request types are imported, and
\* each of them is declared.
C16_Witness ==
    /\ Generated
    /\ \E k \in 1..Len(api.operations) :
          LET name == pascalCase(api.operations[k].operationId) IN
          /\ Range(client.typeImports) =
                {name \o Response, name \o Params, name \o Request}
          /\ \A t \in Range(client.typeImports) : Declarations(t) # {}

\* C17: for an operation with a query or path parameter generateTypes emits
\* one interface <Op>Params whose fields are the query and path parameters,
\* one field each, in declaration order, header and cookie parameters left
\* out, a field being required exactly when the parameter is required in the
\* IR.
C17_ParamsInterface ==
    Typed =>
    \A k \in 1..Len(api.operations) :
        LET op == api.operations[k]
            declared == SelectSeq(op.parameters, LAMBDA p : p.in \in {"query", "path"})
            emitted == Declarations(pascalCase(op.operationId) \o Params)
        IN /\ declared = <<>> => emitted = {}
           /\ declared # <<>> =>
                /\ Cardinality(emitted) = 1
                /\ \A n \in emitted :
                      /\ types[n].kind = "interface"
                      /\ Len(types[n].fields) = Len(declared)
                      /\ \A i \in 1..Len(declared) :
                            /\ types[n].fields[i].name = declared[i].name
                            /\ types[n].fields[i].optional = ~declared[i].required

\* C17 is witnessed by /pet/findByStatus with the required string query
\* parameter status next to a header parameter: the interface has the single
\* required string field status.
C17_Witness ==
    /\ Typed
    /\ \E k \in 1..Len(api.operations) :
          LET op == api.operations[k] IN
          /\ op.path = FindPath
          /\ Len(op.parameters) = 2
          /\ \E n \in 1..2 : op.parameters[n].in = "header"
          /\ \E n \in Declarations(pascalCase(op.operationId) \o Params) :
                types[n].fields = <<[name |-> Status, optional |-> FALSE, tsType |-> "string"]>>

\* the keys the generated query lines set when the method is called with the
\* parameters in given defined and every other one undefined
QueryKeys(m, given) ==
    SelectSeq([n \in 1..Len(m.queryLines) |-> m.queryLines[n]],
              LAMBDA line : ~line.condition \/ line.key \in given)

\* C18: the query lines of a method are those of the operation's query
\* parameters in declaration order, each setting String(params.name), a
\* required one unconditionally and an optional one under the guard
\* params.name !== undefined; the query string is appended to the path, so a
\* required query parameter is set in every call.
C18_QueryString ==
    Generated =>
    \A k \in 1..Len(api.operations) :
        LET op == api.operations[k]
            query == SelectSeq(op.parameters, LAMBDA p : p.in = "query")
        IN \A m \in MethodsOf(op) :
            /\ Len(m.queryLines) = Len(query)
            /\ \A i \in 1..Len(query) :
                  /\ m.queryLines[i].key = query[i].name
                  /\ m.queryLines[i].value = [coercion |-> "String", of |-> query[i].name]
                  /\ m.queryLines[i].condition = ~query[i].required
            /\ query # <<>> => m.queryAppend
            /\ \A i \in 1..Len(query) :
                  query[i].required =>
                      \E j \in 1..Len(QueryKeys(m, {})) : QueryKeys(m, {})[j].key = query[i].name

\* C18 is witnessed by a method with the required query parameter status and
\* the optional query parameter limit: called without limit it sets status
\* only.
C18_Witness ==
    /\ Generated
    /\ \E m \in AllMethods :
          /\ Len(m.queryLines) = 2
          /\ \E i, j \in 1..2 :
                /\ m.queryLines[i].key = Status /\ ~m.queryLines[i].condition
                /\ m.queryLines[j].key = Limit /\ m.queryLines[j].condition
          /\ Len(QueryKeys(m, {})) = 1
          /\ QueryKeys(m, {})[1].key = Status
          /\ m.queryAppend

\* the positions of the path expression at which a literal { stands: every {
\* of a plain string, and in a template literal the ones no $ precedes
LiteralBraces(pathExpr) ==
    {n \in 1..Len(pathExpr.text) :
        /\ pathExpr.text[n] = "{"
        /\ ~(pathExpr.template /\ n > 1 /\ pathExpr.text[n - 1] = "$")}

\* the names of the {name} segments of a path template
Placeholders(path) ==
    { SubSeq(seg, 2, Len(seg) - 1) :
        seg \in {x \in Range(split(path, "/")) :
                   Len(x) >= 2 /\ x[1] = "{" /\ x[Len(x)] = "}"} }

\* the names of the path parameters of an operation of the IR
PathParameterNames(op) ==
    {op.parameters[n].name : n \in {k \in 1..Len(op.parameters) : op.parameters[k].in = "path"}}

\* C19 (as claimed): when every {name} placeholder of the path template has
\* a path parameter of that name, the request path of the generated method
\* has each placeholder replaced by the value of params.name, and no literal
\* placeholder remains.
C19_Original ==
    Generated =>
    \A k \in 1..Len(api.operations) :
        LET op == api.operations[k] IN
        Placeholders(op.path) \subseteq PathParameterNames(op) =>
            \A m \in MethodsOf(op) : LiteralBraces(m.pathExpr) = {}

\* C20 (as claimed): a generated method sends a body exactly when the
\* operation has a request body in the IR; the body is JSON-serialized and
\* the Content-Type header is the content type the IR records for the body.
C20_Original ==
    Generated =>
    \A k \in 1..Len(api.operations) :
        LET op == api.operations[k] IN
        \A m \in MethodsOf(op) :
            /\ Has(m.fetchOptions, "body") <=> op.requestBody # JsUndefined
            /\ Has(m.fetchOptions, "body") =>
                  /\ m.fetchOptions.body = [serialization |-> "JSON.stringify", of |-> "body"]
                  /\ m.fetchOptions.headers.ContentType = op.requestBody.contentType

(***************************************************************************)
(* Properties of the method groups of the client.                          *)
(***************************************************************************)
\* the first tag of an operation of the IR, "default" for an untagged one
FirstTag(op) == IF op.tags = <<>> THEN Default ELSE op.tags[1]

\* the operations at which a first tag occurs for the first time
FirstOccurrences ==
    {k \in 1..Len(api.operations) :
        \A j \in 1..(k - 1) : FirstTag(api.operations[j]) # FirstTag(api.operations[k])}

\* the g-th smallest element of a set of numbers
Nth(S, g) == CHOOSE k \in S : Cardinality({j \in S : j < k}) = g - 1

\* C21: the client has one group per first tag, in the order in which the
\* tags first occur in the IR and keyed by camelCase(tag) ("default" for the
\* untagged operations); the methods of a group are the operations with that
\* first tag, one method each, in IR order, named camelCase(operationId).
C21_Grouping ==
    Generated =>
    /\ Len(client.groups) = Cardinality(FirstOccurrences)
    /\ \A g \in 1..Len(client.groups) :
          LET tag == FirstTag(api.operations[Nth(FirstOccurrences, g)])
              members == SelectSeq(api.operations, LAMBDA op : FirstTag(op) = tag)
              group == client.groups[g]
          IN /\ group.tagName = camelCase(tag)
             /\ Len(group.methods) = Len(members)
             /\ \A n \in 1..Len(members) :
                   group.methods[n].methodName = camelCase(members[n].operationId)

\* C21 is witnessed by an IR whose first operation is untagged, whose second
\* and third carry the first tag pet, one of them with a second tag: the
\* client has the groups default and pet, in this order.
C21_Witness ==
    /\ Generated
    /\ Len(api.operations) = 3
    /\ api.operations[1].tags = <<>>
    /\ Len(api.operations[2].tags) = 2
    /\ Len(client.groups) = 2
    /\ client.groups[1].tagName = Default
    /\ Len(client.groups[1].methods) = 1
    /\ client.groups[2].tagName = <<"p", "e", "t">>
    /\ Len(client.groups[2].methods) = 2

(***************************************************************************)
(* The renderers called on one IR in any order, as a program that imports  *)
(* the library may call them.                                              *)
(***************************************************************************)
MaxCalls == 3

\* A groupByTag that moves the operations it groups to the front of the IR's
\* own operations array, last one first.
irAfterGroupByTagReordered(a) ==
    [a EXCEPT !.operations = [n \in 1..Len(a.operations) |-> a.operations[Len(a.operations) + 1 - n]]]

\* the IR after groupByTag (after generateDocs' loop over api.operations):
\* existing.push(op) appends to an array of the function's own Map, and
\* nothing is assigned to the IR or to one of its members
irAfterGroupByTag(a) == a

irAfterTagGroups(a) == a

PetsPath == <<"/", "p", "e", "t", "s">>

ListPets == <<"l", "i", "s", "t", "_", "p", "e", "t", "s">>

PetsList == <<"p", "e", "t", "s", ".", "l", "i", "s", "t">>

Edit == <<EAcute.upper, "d", "i", "t">>

PetStore == <<"P", "e", "t", "S", "t", "o", "r", "e">>

PetDashStore == <<"p", "e", "t", "-", "s", "t", "o", "r", "e">>

PipeDescription == <<"a", "|", "b", "\n", "c">>

ReadWrite == <<"r", "e", "a", "d", "|", "w", "r", "i", "t", "e">>

DescribedParameter ==
    [ name |-> Status, in |-> "query", description |-> PipeDescription,
      schema |-> [type |-> TString] ]

RenderedOperations ==
    { With([operationId |-> id, tags |-> tags], "parameters", ps) :
        id \in {JsString(ListPets), JsString(PetsList), JsString(Edit), JsUndefined},
        tags \in {JsUndefined, JsArray(<<PetStore>>), JsArray(<<PetDashStore, Pet>>)},
        ps \in {Absent, <<DescribedParameter>>} }

RenderedPathItems ==
    { [k \in {"get"} |-> o] : o \in RenderedOperations }
    \cup { [k \in {"get", "post"} |-> IF k = "get" THEN o1 ELSE o2] :
             o1 \in {o \in RenderedOperations : o.tags = JsUndefined},
             o2 \in {o \in RenderedOperations : o.operationId = JsString(ListPets)} }

RenderedSchemas ==
    { <<[ name |-> Pet,
          schema |-> [ type |-> TObject,
                       properties |->
                         <<[name |-> Id, schema |-> [type |-> TInteger]],
                           [name |-> Status,
                            schema |-> [type |-> TString, enum |-> <<Available, Sold>>,
                                        description |-> PipeDescription]]>>,
                       required |-> <<Id>> ] ]>>,
      <<[ name |-> Pet,
          schema |-> [ type |-> TObject,
                       properties |->
                         <<[name |-> Status,
                            schema |-> [type |-> TString, enum |-> <<ReadWrite>>]]>> ] ]>> }

RenderedDocuments ==
    { With([paths |-> <<[path |-> PetsPath, item |-> item]>>],
           "components", IF schemas = Absent THEN Absent ELSE [schemas |-> schemas]) :
        item \in RenderedPathItems, schemas \in RenderedSchemas \cup {Absent} }

RenderInit ==
    /\ GenIdle
    /\ SrvIdle
    /\ LocIdle
    /\ npc = "input"
    /\ doc \in RenderedDocuments
    /\ api = None
    /\ client = None
    /\ types = None
    /\ docs = None
    /\ rendered = <<>>

\* export function generateTypes(api: ParsedApi): string
CallGenerateTypes ==
    /\ npc = "parsed"
    /\ Len(rendered) < MaxCalls
    /\ types' = generateTypes(api)
    /\ rendered' = Append(rendered, "types")
    /\ UNCHANGED <<npc, doc, api, client, docs>>
    /\ UNCHANGED <<locVars, genVars, srvVars>>

\* export function generateClient(api: ParsedApi, clientName: string): string
CallGenerateClient ==
    /\ npc = "parsed"
    /\ Len(rendered) < MaxCalls
    /\ client' = generateClient(api)
    /\ api' = irAfterGroupByTag(api)
    /\ rendered' = Append(rendered, "client")
    /\ UNCHANGED <<npc, doc, types, docs>>
    /\ UNCHANGED <<locVars, genVars, srvVars>>

\* export function generateDocs(api: ParsedApi, clientName: string): string
CallGenerateDocs ==
    /\ npc = "parsed"
    /\ Len(rendered) < MaxCalls
    /\ docs' = generateDocs(api)
    /\ api' = irAfterTagGroups(api)
    /\ rendered' = Append(rendered, "docs")
    /\ UNCHANGED <<npc, doc, types, client>>
    /\ UNCHANGED <<locVars, genVars, srvVars>>

RenderNext ==
    \/ Parse
    \/ CallGenerateTypes
    \/ CallGenerateClient
    \/ CallGenerateDocs

SpecRender == RenderInit /\ [][RenderNext]_vars

(***************************************************************************)
(* Properties of the renderers called in any order.                        *)
(***************************************************************************)
Ran(renderer) == renderer \in Range(rendered)

IdentifierInputs ==
    {api.operations[k].operationId : k \in 1..Len(api.operations)}
    \cup UNION {Range(api.operations[k].tags) : k \in 1..Len(api.operations)}

\* the operation generateQuickStart prints its example for
SimpleGets ==
    {k \in 1..Len(api.operations) :
        api.operations[k].method = Get /\ api.operations[k].parameters = <<>>}

FirstSimpleGet == api.operations[CHOOSE k \in SimpleGets : \A j \in SimpleGets : k <= j]

\* C23 (as claimed): the three renderers derive identifiers with the same
\* function: their pascalCase agree on every input, and the method name of the
\* quick start of the docs is the client's camelCase of the operationId.
C23_Original ==
    (npc = "parsed" /\ Ran("docs")) =>
    /\ \A s \in IdentifierInputs :
          typesPascalCase(s) = pascalCase(s) /\ docsPascalCase(s) = pascalCase(s)
    /\ SimpleGets # {} =>
          /\ docs.quickStart # <<>>
          /\ docs.quickStart[1].method = camelCase(FirstSimpleGet.operationId)

IsAlphanumeric(c) == (IsWordChar(c) /\ c # "_") \/ c \in {EAcute.upper, EAcute.lower}

NoSeparator(s) == \A n \in 1..Len(s) : IsAlphanumeric(s[n])

\* C24 (as claimed): pascalCase and camelCase split at every "-", "_" and
\* other non-alphanumeric boundary, so no identifier emitted by the client or
\* type renderer contains a separator character.
C24_Original ==
    (npc = "parsed" /\ Ran("client") /\ Ran("types")) =>
    /\ \A m \in AllMethods : NoSeparator(m.methodName) /\ NoSeparator(m.responseType)
    /\ \A g \in 1..Len(client.groups) : NoSeparator(client.groups[g].tagName)
    /\ \A n \in 1..Len(types) : NoSeparator(types[n].name)

\* the cells of every row of the parameter tables and field tables of the docs
TableCells ==
    UNION { Range(row) :
            row \in UNION { UNION { Range(docs.endpoints[g].operations[n].paramTable) :
                                      n \in 1..Len(docs.endpoints[g].operations) } :
                              g \in 1..Len(docs.endpoints) }
                    \cup UNION { Range(docs.models[n].fieldTable) :
                                   n \in 1..Len(docs.models) } }

Unescaped(cell, n) == cell[n] = "|" /\ (n = 1 \/ cell[n - 1] # "\\")

\* C25 (as claimed): no cell of a table of the docs holds a newline or a "|"
\* that is not escaped, whatever the names, types, enum values and
\* descriptions of the IR are.
C25_Original ==
    (npc = "parsed" /\ Ran("docs")) =>
    \A cell \in TableCells :
        \A n \in 1..Len(cell) : cell[n] # "\n" /\ ~Unescaped(cell, n)

\* C27 (as claimed): the call api.<group>.<method>() of the quick start names
\* a group and a method of that group that generateClient emits for the same IR.
C27_Original ==
    (npc = "parsed" /\ Ran("docs") /\ Ran("client") /\ docs.quickStart # <<>>) =>
    \E g \in 1..Len(client.groups) :
        /\ client.groups[g].tagName = docs.quickStart[1].group
        /\ \E m \in Range(client.groups[g].methods) :
              m.methodName = docs.quickStart[1].method


(***************************************************************************)
(* Properties of the params argument of a generated method.                *)
(***************************************************************************)
ParamsArgument(m) == {p \in Range(m.params) : p.name = "params"}

\* the body of m reads a member of params with a plain member access, in a
\* line of the query builder or in the template of the path
DereferencesParams(m) ==
    \/ \E n \in 1..Len(m.queryLines) : m.queryLines[n].access = "."
    \/ /\ m.pathExpr.template
       /\ indexOf(m.pathExpr.text, <<"$", "{", "p", "a", "r", "a", "m", "s", ".">>) # 0

\* C28 (as claimed): params is declared optional exactly when every query and
\* path parameter of the operation is optional, and a method whose params is
\* optional never reads a member of params without a guard.
C28_Original ==
    Generated =>
    \A k \in 1..Len(api.operations) :
        LET op == api.operations[k] IN
        \A m \in MethodsOf(op) :
            \A p \in ParamsArgument(m) :
                /\ p.optional <=>
                      \A n \in 1..Len(op.parameters) :
                          op.parameters[n].in \in {"query", "path"} => ~op.parameters[n].required
                /\ p.optional => ~DereferencesParams(m)


(***************************************************************************)
(* Termination of the locator.                                             *)
(***************************************************************************)
Terminated == pc \in {"returned", "thrown"}

\* the fetches after the direct one: the probes of discoverSpec
ProbeLog == SubSeq(fetchLog, 2, Len(fetchLog))

BoundedProbes ==
    /\ Len(fetchLog) <= 1 + NumPaths
    /\ fetchLog # <<>> => fetchLog[1] = url
    /\ \A i, j \in 1..Len(ProbeLog) : i # j => ProbeLog[i] # ProbeLog[j]

\* C29: when every fetch and validation completes, fetchOpenApiSpec
\* terminates, returning a result or throwing, and on the way it makes at
\* most one direct fetch and one fetch per discovery path (15), no probe
\* path twice.
C29_Terminates == <>Terminated /\ []BoundedProbes

\* C29 is witnessed by a run that threw after the direct fetch and all 15
\* probes.
C29_Witness ==
    /\ pc = "thrown"
    /\ Len(fetchLog) = 1 + NumPaths
    /\ BoundedProbes


(***************************************************************************)
(* The dev server: startServer and handleRequest.  A path of the file      *)
(* system and the path of a request URL are the sequences of their         *)
(* segments; the file system is the same during a run.                     *)
(***************************************************************************)
MaxServers == 2

DefaultPort == 3000

maxAttempts == 100

\* the ports held by other processes of the machine
OtherProcessPorts == {3001}

RequestedPorts == {3000, 3002}

ClientDirs == {<<"srv", "a">>, <<"srv", "b">>}

\* the regular files of the machine
RegularFiles ==
    { <<"srv", "a", "manifest.json">>, <<"srv", "a", "types.ts">>, <<"srv", "a", "client.ts">>,
      <<"srv", "b", "manifest.json">>, <<"srv", "b", "types.ts">>,
      <<"srv", "secret.txt">> }

\* JSON.parse of the manifest.json of a client directory
ManifestOf(clientDir) ==
    IF clientDir = <<"srv", "a">>
    THEN [title |-> "Petstore", files |-> <<"types.ts", "client.ts">>]
    ELSE [title |-> "Inventory", files |-> <<"types.ts">>]

\* the URLs requested, without their first "/"
RequestUrls ==
    { <<>>, <<"index.html">>, <<"types.ts">>, <<"missing.ts">>, <<"sub", "..", "client.ts">>,
      <<"..", "secret.txt">>, <<"..", "b", "types.ts">> }

DigitCharacters == <<"0", "1", "2", "3", "4", "5", "6", "7", "8", "9">>

\* String(port)
RECURSIVE String(_)
String(n) ==
    IF n < 10 THEN <<DigitCharacters[n + 1]>>
    ELSE String(n \div 10) \o <<DigitCharacters[(n % 10) + 1]>>

\* path.join of node:path on absolute paths: the segments are concatenated
\* and normalized, ".." removing the segment before it
RECURSIVE normalize(_, _)
normalize(segments, acc) ==
    IF segments = <<>> THEN acc
    ELSE normalize(Tail(segments),
                   IF Head(segments) = ".."
                   THEN SubSeq(acc, 1, Len(acc) - 1)
                   ELSE IF Head(segments) \in {".", ""} THEN acc
                   ELSE Append(acc, Head(segments)))

pathJoin(dir, rest) == normalize(dir \o rest, <<>>)

PortsInUse == OtherProcessPorts \cup {servers[k].port : k \in 1..Len(servers)}

\* the first port from startPort on, of maxAttempts ports, that can be bound
findAvailablePort(startPort) ==
    LET available == {p \in startPort..(startPort + maxAttempts - 1) : p \notin PortsInUse}
    IN IF available = {} THEN None
       ELSE [port |-> CHOOSE p \in available : \A q \in available : p <= q]

\* the index page; its port is ${process.env.PORT || 3000}
generateIndexPage(manifest, files) ==
    [ title |-> manifest.title,
      fileLinks |-> files,
      port |-> IF envPort = JsUndefined \/ envPort.v = <<>>
               THEN String(DefaultPort) ELSE envPort.v ]

handleRequest(requestUrl, server) ==
    IF requestUrl \in {<<>>, <<"index.html">>}
    THEN [ status |-> 200, kind |-> "index",
           body |-> generateIndexPage(server.manifest,
                                      <<"manifest.json">> \o server.manifest.files) ]
    ELSE LET filePath == pathJoin(server.clientDir, requestUrl) IN
         IF filePath \in RegularFiles
         THEN [status |-> 200, kind |-> "file", body |-> [contentOf |-> filePath]]
         ELSE [status |-> 404, kind |-> "text", body |-> [notFound |-> requestUrl]]

\* startServer(clientDir, requestedPort) up to the end of
\* await findAvailablePort(requestedPort)
StartServer ==
    /\ Len(servers) + Cardinality(starting) < MaxServers
    /\ \E clientDir \in ClientDirs, requestedPort \in RequestedPorts :
         /\ pathJoin(clientDir, <<"manifest.json">>) \in RegularFiles
         /\ findAvailablePort(requestedPort) # None
         /\ starting' = starting \cup
                          {[ clientDir |-> clientDir,
                             manifest |-> ManifestOf(clientDir),
                             port |-> findAvailablePort(requestedPort).port ]}
    /\ UNCHANGED <<envPort, servers, served>>
    /\ UNCHANGED <<locVars, genVars, normVars>>

\* ... process.env.PORT = String(port); createServer(...); server.listen(port):
\* the server listens, or the promise is rejected when the port was taken
\* in the meantime
Listen ==
    /\ \E s \in starting :
         /\ envPort' = JsString(String(s.port))
         /\ servers' = IF s.port \in PortsInUse THEN servers ELSE Append(servers, s)
         /\ starting' = starting \ {s}
    /\ UNCHANGED served
    /\ UNCHANGED <<locVars, genVars, normVars>>

\* a request arrives at one of the listening servers
HandleRequest ==
    /\ \E k \in 1..Len(servers), requestUrl \in RequestUrls :
         served' = [server |-> k, url |-> requestUrl] @@ handleRequest(requestUrl, servers[k])
    /\ UNCHANGED <<envPort, starting, servers>>
    /\ UNCHANGED <<locVars, genVars, normVars>>

ServerInit ==
    /\ GenIdle
    /\ LocIdle
    /\ NormIdle
    /\ SrvIdle

ServerNext ==
    \/ StartServer
    \/ Listen
    \/ HandleRequest

SpecServer == ServerInit /\ [][ServerNext]_vars

(***************************************************************************)
(* Properties of the dev server.                                           *)
(***************************************************************************)
IndexServed == served # None /\ served.kind = "index"

\* C26 (as claimed): the port on the index page of a server is the port of
\* that server, whatever other servers were started in the process.
C26_Original ==
    IndexServed => served.body.port = String(servers[served.server].port)

\* path lies under the directory dir
IsUnder(path, dir) == Len(path) > Len(dir) /\ SubSeq(path, 1, Len(dir)) = dir

\* C30 (as claimed): a file served with status 200 lies under the clientDir
\* of the server, also for a URL with ".." segments.
C30_Original ==
    (served # None /\ served.kind = "file") =>
        /\ served.status = 200
        /\ IsUnder(served.body.contentOf, servers[served.server].clientDir)

====
